---- MODULE Spec2Model ----
(***************************************************************************)
(* SolinBlog page store (src/src/store.rs): the on-disk page records, the  *)
(* index.json secondary index, the HTML validator and the id helpers.      *)
(*                                                                         *)
(* Strings are sequences of one-character strings; offsets are 0-based as  *)
(* in the Rust source (At(bytes, i) is bytes[i]).  An Option is a sequence *)
(* of length 0 (None) or 1 (Some).                                         *)
(***************************************************************************)
EXTENDS Integers, Sequences, FiniteSets, TLC

----------------------------------------------------------------------------
(* Characters                                                              *)

Uppers == <<"A","B","C","D","E","F","G","H","I","J","K","L","M",
            "N","O","P","Q","R","S","T","U","V","W","X","Y","Z">>
Lowers == <<"a","b","c","d","e","f","g","h","i","j","k","l","m",
            "n","o","p","q","r","s","t","u","v","w","x","y","z">>
Digits == <<"0","1","2","3","4","5","6","7","8","9">>

Range(s) == { s[i] : i \in 1..Len(s) }

AsciiAlphanumerics == Range(Uppers) \cup Range(Lowers) \cup Range(Digits)

IsAsciiAlphanumeric(ch) == ch \in AsciiAlphanumerics

\* u8::is_ascii_whitespace: space, tab, line feed, form feed, carriage return
IsAsciiWhitespace(ch) == ch \in {" ", "\t", "\n", "\f", "\r"}

ToAsciiLowercase(ch) ==
    IF ch \in Range(Uppers)
    THEN Lowers[CHOOSE i \in 1..Len(Uppers) : Uppers[i] = ch]
    ELSE ch

\* to_ascii_lowercase left out: the name as written
LowerName_Keep(name) == name

LowerName(name) == [i \in 1..Len(name) |-> ToAsciiLowercase(name[i])]

At(bytes, i) == bytes[i + 1]

Some(x) == <<x>>
None == <<>>

\* The bytes of the model's strings in ascending order (ASCII), the order
\* String keys compare in.
ByteOrder == <<"-", "/">> \o Digits \o Uppers \o <<"_">> \o Lowers
ByteRank(ch) == CHOOSE i \in 1..Len(ByteOrder) : ByteOrder[i] = ch

\* a < b for strings (Ord for String: lexicographic on bytes)
RECURSIVE StrLess(_, _)
StrLess(a, b) ==
    IF b = <<>> THEN FALSE
    ELSE IF a = <<>> THEN TRUE
    ELSE IF Head(a) # Head(b) THEN ByteRank(Head(a)) < ByteRank(Head(b))
    ELSE StrLess(Tail(a), Tail(b))

----------------------------------------------------------------------------
(* sanitize_page_id                                                        *)

\* Mutant of SanitizeChar: every character is kept.
SanitizeChar_Keep(ch) == ch

SanitizeChar(ch) ==
    IF IsAsciiAlphanumeric(ch) \/ ch = "-" \/ ch = "_" THEN ch ELSE "_"

sanitize_page_id(page_id) ==
    LET sanitized == [i \in 1..Len(page_id) |-> SanitizeChar(page_id[i])]
    IN  IF sanitized = <<>> THEN <<"p","a","g","e">> ELSE sanitized

----------------------------------------------------------------------------
(* validate_html and its scanners                                          *)

VOk == [ok |-> TRUE, err |-> "", at |-> 0]
VErr(msg, offset) == [ok |-> FALSE, err |-> msg, at |-> offset]

\* Option<usize> results of the scanners are -1 for None.
RECURSIVE find_tag_end_from(_, _, _)
find_tag_end_from(bytes, index, quote) ==
    IF index >= Len(bytes) THEN -1
    ELSE LET byte == At(bytes, index) IN
         IF quote = None
         THEN IF byte = "'" \/ byte = "\""
              THEN find_tag_end_from(bytes, index + 1, Some(byte))
              ELSE IF byte = ">" THEN index
              ELSE find_tag_end_from(bytes, index + 1, quote)
         ELSE IF byte = quote[1]
              THEN find_tag_end_from(bytes, index + 1, None)
              ELSE find_tag_end_from(bytes, index + 1, quote)

\* a scan that ignores quotes: the first '>' at or after index
find_tag_end_NoQuotes(bytes, index) ==
    LET hits == { i \in index..(Len(bytes) - 1) : At(bytes, i) = ">" }
    IN  IF hits = {} THEN -1 ELSE CHOOSE i \in hits : \A j \in hits : i <= j

find_tag_end(bytes, index) == find_tag_end_from(bytes, index, None)

MatchesAt(haystack, index, needle) ==
    \A k \in 0..(Len(needle) - 1) : At(haystack, index + k) = At(needle, k)

MatchesAtNoCase(haystack, index, needle) ==
    \A k \in 0..(Len(needle) - 1) :
        ToAsciiLowercase(At(haystack, index + k)) = ToAsciiLowercase(At(needle, k))

Min(a, b) == IF a <= b THEN a ELSE b

\* the search started at the beginning of the haystack, whatever start is
find_bytes_FromZero(haystack, start, needle) ==
    IF needle = <<>> THEN Min(start, Len(haystack))
    ELSE IF start >= Len(haystack) \/ Len(needle) > Len(haystack) THEN -1
    ELSE LET end == Len(haystack) - Len(needle)
             hits == { i \in 0..end : MatchesAt(haystack, i, needle) }
         IN  IF hits = {} THEN -1 ELSE CHOOSE i \in hits : \A j \in hits : i <= j

find_bytes(haystack, start, needle) ==
    IF needle = <<>> THEN Min(start, Len(haystack))
    ELSE IF start >= Len(haystack) \/ Len(needle) > Len(haystack) THEN -1
    ELSE LET end == Len(haystack) - Len(needle)
             hits == { i \in start..end : MatchesAt(haystack, i, needle) }
         IN  IF hits = {} THEN -1 ELSE CHOOSE i \in hits : \A j \in hits : i <= j

\* the search for the closing tag of a raw-text element made case-sensitive
find_bytes_ExactCase(haystack, start, needle) == find_bytes(haystack, start, needle)

find_bytes_case_insensitive(haystack, start, needle) ==
    IF needle = <<>> THEN Min(start, Len(haystack))
    ELSE IF start >= Len(haystack) \/ Len(needle) > Len(haystack) THEN -1
    ELSE LET end == Len(haystack) - Len(needle)
             hits == { i \in start..end : MatchesAtNoCase(haystack, i, needle) }
         IN  IF hits = {} THEN -1 ELSE CHOOSE i \in hits : \A j \in hits : i <= j

RECURSIVE SkipWhitespace(_, _)
SkipWhitespace(bytes, index) ==
    IF index < Len(bytes) /\ IsAsciiWhitespace(At(bytes, index))
    THEN SkipWhitespace(bytes, index + 1)
    ELSE index

RECURSIVE SkipNameChars(_, _)
SkipNameChars(bytes, index) ==
    IF index < Len(bytes)
       /\ (IsAsciiAlphanumeric(At(bytes, index))
           \/ At(bytes, index) = "-" \/ At(bytes, index) = ":")
    THEN SkipNameChars(bytes, index + 1)
    ELSE index

\* [ok, name, after]; ok = FALSE is the "missing tag name" error.
parse_tag_name(bytes, index, tag_start) ==
    LET start == SkipWhitespace(bytes, index)
        stop  == SkipNameChars(bytes, start)
    IN  IF start = stop
        THEN [ok |-> FALSE, name |-> <<>>, after |-> stop]
        ELSE [ok |-> TRUE, name |-> SubSeq(bytes, start + 1, stop), after |-> stop]

RECURSIVE is_self_closing(_, _, _)
is_self_closing(bytes, start, end) ==
    IF end > start
    THEN IF IsAsciiWhitespace(At(bytes, end - 1))
         THEN is_self_closing(bytes, start, end - 1)
         ELSE At(bytes, end - 1) = "/"
    ELSE FALSE

VoidElements ==
    { <<"a","r","e","a">>, <<"b","a","s","e">>, <<"b","r">>, <<"c","o","l">>,
      <<"e","m","b","e","d">>, <<"h","r">>, <<"i","m","g">>,
      <<"i","n","p","u","t">>, <<"l","i","n","k">>, <<"m","e","t","a">>,
      <<"p","a","r","a","m">>, <<"s","o","u","r","c","e">>,
      <<"t","r","a","c","k">>, <<"w","b","r">> }

\* no element is void
is_void_element_Never(name) == FALSE

is_void_element(name) == name \in VoidElements

ScriptName == <<"s","c","r","i","p","t">>
StyleName == <<"s","t","y","l","e">>

\* char::is_whitespace (str::trim): the ASCII whitespace and vertical tab, written
\* "VT"; the multi-byte Unicode spaces are not in the model's alphabet.
IsWhitespace(ch) == IsAsciiWhitespace(ch) \/ ch = "VT"

Trim(s) ==
    LET keep == { i \in 1..Len(s) : ~IsWhitespace(s[i]) }
    IN  IF keep = {} THEN <<>>
        ELSE SubSeq(s, CHOOSE i \in keep : \A j \in keep : i <= j,
                       CHOOSE i \in keep : \A j \in keep : i >= j)

\* the NUL check left out
NulPositions_None(bytes) == {}

NulPositions(bytes) == { i \in 0..(Len(bytes) - 1) : At(bytes, i) = "NUL" }

\* How one pass through the body of the scanning loop ends: with the cursor and
\* the stack for the next iteration (continue, or the end of the body), or with
\* the error the function returns (bail!, ?).
LoopContinue(index, stack) == [bail |-> FALSE, index |-> index, stack |-> stack, v |-> VOk]
LoopBail(msg, index, stack) ==
    [bail |-> TRUE, index |-> index, stack |-> stack, v |-> VErr(msg, index)]

\* One iteration of the scanning loop of validate_html, entered with
\* index < bytes.len().
LoopBody(bytes, index, stack) ==
    IF At(bytes, index) # "<"
    THEN LoopContinue(index + 1, stack)
    ELSE IF index + 3 < Len(bytes) /\ At(bytes, index + 1) = "!"
            /\ At(bytes, index + 2) = "-" /\ At(bytes, index + 3) = "-"
    THEN LET end == find_bytes(bytes, index + 4, <<"-", "-", ">">>) IN
         IF end # -1 THEN LoopContinue(end + 3, stack)
         ELSE LoopBail("unterminated comment", index, stack)
    ELSE IF index + 1 < Len(bytes) /\ At(bytes, index + 1) = "!"
    THEN LET end == find_tag_end(bytes, index + 2) IN
         IF end # -1 THEN LoopContinue(end + 1, stack)
         ELSE LoopBail("unterminated declaration", index, stack)
    ELSE IF index + 1 < Len(bytes) /\ At(bytes, index + 1) = "/"
    THEN LET tn == parse_tag_name(bytes, index + 2, index) IN
         IF ~tn.ok THEN LoopBail("missing tag name", index, stack)
         ELSE LET end == find_tag_end(bytes, tn.after)
                  name == LowerName(tn.name)
              IN  IF end = -1 THEN LoopBail("unterminated closing tag", index, stack)
                  ELSE IF stack = <<>> THEN LoopBail("unexpected closing tag", index, stack)
                  ELSE IF stack[Len(stack)].tag # name
                  THEN LoopBail("mismatched closing tag", index, stack)
                  ELSE LoopContinue(end + 1, SubSeq(stack, 1, Len(stack) - 1))
    ELSE LET tn == parse_tag_name(bytes, index + 1, index) IN
         IF ~tn.ok THEN LoopBail("missing tag name", index, stack)
         ELSE LET end == find_tag_end(bytes, tn.after)
                  name == LowerName(tn.name)
              IN  IF end = -1 THEN LoopBail("unterminated opening tag", index, stack)
                  ELSE IF name = ScriptName \/ name = StyleName
                  THEN IF is_self_closing(bytes, index + 1, end)
                       THEN LoopContinue(end + 1, stack)
                       ELSE LET closing == <<"<", "/">> \o name \o <<">">>
                                close_start ==
                                    find_bytes_case_insensitive(bytes, end + 1, closing)
                            IN  IF close_start # -1
                                THEN LoopContinue(close_start + Len(closing), stack)
                                ELSE LoopBail("unterminated raw text element", index, stack)
                  ELSE IF ~is_self_closing(bytes, index + 1, end) /\ ~is_void_element(name)
                       THEN LoopContinue(end + 1,
                                         Append(stack, [tag |-> name, at |-> index]))
                       ELSE LoopContinue(end + 1, stack)

\* What validate_html returns when the loop is left with index >= bytes.len().
AfterLoop(stack) ==
    IF stack # <<>> THEN VErr("unclosed tag", stack[Len(stack)].at) ELSE VOk

\* The scanning loop of validate_html run to its end.
RECURSIVE ValidateLoop(_, _, _)
ValidateLoop(bytes, index, stack) ==
    IF index >= Len(bytes)
    THEN AfterLoop(stack)
    ELSE LET r == LoopBody(bytes, index, stack) IN
         IF r.bail THEN r.v ELSE ValidateLoop(bytes, r.index, r.stack)

validate_html(html) ==
    IF Trim(html) = <<>> THEN VErr("html is empty or whitespace", 0)
    ELSE IF NulPositions(html) # {}
    THEN VErr("html contains NUL byte",
              CHOOSE i \in NulPositions(html) : \A j \in NulPositions(html) : i <= j)
    ELSE ValidateLoop(html, 0, <<>>)

----------------------------------------------------------------------------
(* Page uid generation                                                     *)

PAGE_UID_LEN == 16
PAGE_UID_ALPHABET == Uppers \o Lowers \o Digits
UID_ATTEMPTS == 8

\* generate_page_uid, given the bytes getrandom produced.
generate_page_uid(bytes) ==
    [i \in 1..PAGE_UID_LEN |-> PAGE_UID_ALPHABET[(bytes[i] % 62) + 1]]

IndexUids(index) == { index[k].page_uid : k \in DOMAIN index }

\* Mutant of UniqueFrom: the draw is returned without looking at the index.
UniqueFrom_FirstDraw(index, draws, n) == Some(generate_page_uid(draws[n]))

\* generate_unique_page_uid, given the random bytes of each of its draws:
\* Some(uid) of the first draw no index entry carries, None when all collide.
RECURSIVE UniqueFrom(_, _, _)
UniqueFrom(index, draws, n) ==
    IF n > UID_ATTEMPTS THEN None
    ELSE LET uid == generate_page_uid(draws[n]) IN
         IF uid \notin IndexUids(index) THEN Some(uid)
         ELSE UniqueFrom(index, draws, n + 1)

generate_unique_page_uid(index, draws) == UniqueFrom(index, draws, 1)

----------------------------------------------------------------------------
(* The filesystem tree under base_dir                                      *)
(*   fs.index, fs.indexTmp          base_dir/index.json, base_dir/index.tmp *)
(*   fs.dirs[d].meta, .metaTmp      base_dir/d/meta.json, base_dir/d/meta.tmp *)
(*   fs.dirs[d].html, .htmlTmp      base_dir/d/index.html, base_dir/d/index.tmp *)
(* A file holds the value its JSON (or text) denotes: serde writes and     *)
(* reads every field of PageMeta and StoreIndex back unchanged.            *)

Absent == [st |-> "absent"]
FileOf(data) == [st |-> "ok", data |-> data]
Exists(file) == file.st # "absent"

EmptyDir == [meta |-> Absent, metaTmp |-> Absent, html |-> Absent, htmlTmp |-> Absent]
EmptyIndex == [k \in {} |-> 0]
EmptyFs == [dirs |-> [d \in {} |-> EmptyDir], index |-> Absent, indexTmp |-> Absent]

IsDir(fs, d) == d \in DOMAIN fs.dirs

\* Path::with_extension("tmp")
TmpOf(f) == CASE f = "meta" -> "metaTmp" [] f = "html" -> "htmlTmp" [] f = "index" -> "indexTmp"

GetFile(fs, d, f) ==
    IF f \in {"index", "indexTmp"} THEN fs[f]
    ELSE IF IsDir(fs, d) THEN fs.dirs[d][f] ELSE Absent

PutFile(fs, d, f, file) ==
    IF f \in {"index", "indexTmp"} THEN [fs EXCEPT ![f] = file]
    ELSE [fs EXCEPT !.dirs[d][f] = file]

ParentExists(fs, d, f) == f \in {"index", "indexTmp"} \/ IsDir(fs, d)

\* fs::create_dir_all
create_dir_all(fs, d) ==
    IF IsDir(fs, d) THEN fs
    ELSE [fs EXCEPT !.dirs = [x \in DOMAIN fs.dirs \cup {d} |->
                                 IF x = d THEN EmptyDir ELSE fs.dirs[x]]]

\* fs::remove_dir_all
remove_dir_all(fs, d) ==
    [fs EXCEPT !.dirs = [x \in DOMAIN fs.dirs \ {d} |-> fs.dirs[x]]]

----------------------------------------------------------------------------
(* Metadata resolution (the pure parts of save_page and its siblings)      *)

NullMeta == [seo |-> "", page_uid |-> <<>>, created_at |-> 0, updated_at |-> 0,
             extra |-> ""]

OrElse(a, b) == IF a # None THEN a ELSE b

IndexUid(index, safe_id) ==
    IF safe_id \in DOMAIN index /\ index[safe_id].page_uid # <<>>
    THEN Some(index[safe_id].page_uid) ELSE None

\* Mutant of ResolvePageUid: the caller's page_uid is tried first.
ResolvePageUid_CallerFirst(existing_meta, index, safe_id, meta, draws) ==
    LET existing_uid == IF existing_meta # None /\ existing_meta[1].page_uid # <<>>
                        THEN Some(existing_meta[1].page_uid) ELSE None
        fallback_uid == IF meta.page_uid = <<>> THEN None ELSE Some(meta.page_uid)
        chosen == OrElse(OrElse(fallback_uid, existing_uid), IndexUid(index, safe_id))
    IN  IF chosen # None THEN chosen ELSE generate_unique_page_uid(index, draws)

\* save_page / update_page_meta: existing_uid.or(index_uid).or(fallback_uid),
\* else a generated one; None is "failed to generate unique page uid".
ResolvePageUid(existing_meta, index, safe_id, meta, draws) ==
    LET existing_uid == IF existing_meta # None /\ existing_meta[1].page_uid # <<>>
                        THEN Some(existing_meta[1].page_uid) ELSE None
        fallback_uid == IF meta.page_uid = <<>> THEN None ELSE Some(meta.page_uid)
        chosen == OrElse(OrElse(existing_uid, IndexUid(index, safe_id)), fallback_uid)
    IN  IF chosen # None THEN chosen ELSE generate_unique_page_uid(index, draws)

\* update_page_html: meta_uid.or(index_uid), else a generated one.
ResolvePageUidHtml(meta, index, safe_id, draws) ==
    LET meta_uid == IF meta.page_uid = <<>> THEN None ELSE Some(meta.page_uid)
        chosen == OrElse(meta_uid, IndexUid(index, safe_id))
    IN  IF chosen # None THEN chosen ELSE generate_unique_page_uid(index, draws)

\* Mutant of ResolveCreatedAt: the caller's created_at is tried first.
ResolveCreatedAt_CallerFirst(existing_meta, meta, now_ts) ==
    IF meta.created_at > 0 THEN meta.created_at
    ELSE IF existing_meta # None /\ existing_meta[1].created_at > 0
    THEN existing_meta[1].created_at
    ELSE now_ts

\* save_page / update_page_meta: existing_created_at.or(fallback).unwrap_or(now_ts)
ResolveCreatedAt(existing_meta, meta, now_ts) ==
    IF existing_meta # None /\ existing_meta[1].created_at > 0
    THEN existing_meta[1].created_at
    ELSE IF meta.created_at > 0 THEN meta.created_at
    ELSE now_ts

\* Mutant of MetaToWrite: the caller's timestamps are written as passed.
MetaToWrite_CallerTimestamps(meta, page_uid, created_at, now_ts) ==
    [meta EXCEPT !.page_uid = page_uid]

\* the metadata save_page / update_page_meta write
MetaToWrite(meta, page_uid, created_at, now_ts) ==
    [meta EXCEPT !.page_uid = page_uid, !.created_at = created_at,
                 !.updated_at = now_ts]

\* Mutant of MetaToWriteHtml: updated_at is left as read.
MetaToWriteHtml_NoRefresh(meta, page_uid, now_ts) ==
    [meta EXCEPT !.page_uid = page_uid,
                 !.created_at = IF meta.created_at <= 0 THEN now_ts ELSE meta.created_at]

\* the metadata update_page_html writes back
MetaToWriteHtml(meta, page_uid, now_ts) ==
    [meta EXCEPT !.page_uid = page_uid,
                 !.created_at = IF meta.created_at <= 0 THEN now_ts ELSE meta.created_at,
                 !.updated_at = now_ts]

OriginalId(index, safe_id, page_id) ==
    IF safe_id \in DOMAIN index /\ index[safe_id].original_id # None
    THEN index[safe_id].original_id
    ELSE IF safe_id = page_id THEN None ELSE Some(page_id)

IndexEntry(index, safe_id, page_id, meta_to_write) ==
    [page_id |-> safe_id, seo |-> meta_to_write.seo,
     page_uid |-> meta_to_write.page_uid,
     original_id |-> OriginalId(index, safe_id, page_id)]

IndexInsert(index, key, entry) ==
    [k \in DOMAIN index \cup {key} |-> IF k = key THEN entry ELSE index[k]]

IndexRemove(index, key) == [k \in DOMAIN index \ {key} |-> index[k]]

\* Mutant of ScanIndex: the entries carry no page_uid.
ScanIndex_NoUid(fs) ==
    [d \in { x \in DOMAIN fs.dirs : fs.dirs[x].meta.st = "ok" } |->
        [page_id |-> d, seo |-> fs.dirs[d].meta.data.seo,
         page_uid |-> <<>>, original_id |-> None]]

\* the scan of rebuild_index: every directory whose meta.json reads and parses
ScanIndex(fs) ==
    [d \in { x \in DOMAIN fs.dirs : fs.dirs[x].meta.st = "ok" } |->
        [page_id |-> d, seo |-> fs.dirs[d].meta.data.seo,
         page_uid |-> fs.dirs[d].meta.data.page_uid, original_id |-> None]]

\* resolve_page_id_by_uid, on the index it loaded: the key page_uid itself when
\* the index has it, else the first key in BTreeMap order whose entry carries
\* page_uid, else None.
ResolvePageIdByUid(index, page_uid) ==
    IF page_uid \in DOMAIN index THEN Some(page_uid)
    ELSE LET matches == { k \in DOMAIN index : index[k].page_uid = page_uid } IN
         IF matches = {} THEN None
         ELSE Some(CHOOSE k \in matches : \A j \in matches \ {k} : StrLess(k, j))

----------------------------------------------------------------------------
(* The store's operations as sequences of filesystem steps.                *)
(* A call is a record l: its arguments, its locals and l.k, the steps it   *)
(* has still to run; l.res is "" while it runs, then "ok" or the error.    *)
(* Each step is one filesystem access of the source (a read, a write, a    *)
(* remove, a rename, a directory scan) with the computation that follows.  *)

I(i, f) == [i |-> i, f |-> f]

\* Mutant of page_exists: the directory is not looked at.
page_exists_IndexOnly(fs, index, page_id) ==
    sanitize_page_id(page_id) \in DOMAIN index

\* page_exists, on the index it loaded
page_exists(fs, index, page_id) ==
    \/ sanitize_page_id(page_id) \in DOMAIN index
    \/ IsDir(fs, sanitize_page_id(page_id))

\* What load_index returns on fs: index.json, or the rebuilt index when
\* index.json is missing or does not parse.
LoadedIndex(fs) == IF fs.index.st = "ok" THEN fs.index.data ELSE ScanIndex(fs)

\* atomic_write(path, data) for path = meta.json, index.html or index.json
AtomicWriteCode(f) ==
    << I("aw_mkparent", f), I("aw_write", f), I("aw_remove", f), I("aw_rename", f) >>

\* save_index
SaveIndexCode == AtomicWriteCode("index")

\* page_exists followed by the caller's bail!
PageExistsCode(want) == << I("load_index", ""), I("check_exists", want) >>

SavePageCode ==
    << I("mkdir_page", ""), I("load_index", ""), I("read_existing_meta", ""),
       I("resolve_meta", "") >>
    \o AtomicWriteCode("meta")
    \o << I("validate_html", "") >>
    \o AtomicWriteCode("html")
    \o << I("index_insert", "") >>
    \o SaveIndexCode

CreatePageCode == PageExistsCode("absent") \o SavePageCode
\* Mutant of UpdatePageCode: no page_exists check (an upsert).
UpdatePageCode_NoCheck == SavePageCode

UpdatePageCode == PageExistsCode("present") \o SavePageCode

UpdatePageMetaCode ==
    PageExistsCode("present")
    \o << I("load_index", ""), I("read_existing_meta", ""), I("resolve_meta", "") >>
    \o AtomicWriteCode("meta")
    \o << I("index_insert", "") >>
    \o SaveIndexCode

\* update_page_html that writes back the caller's (empty) metadata in place of
\* the metadata it read
UpdatePageHtmlCode_CallerMeta ==
    PageExistsCode("present")
    \o << I("validate_html", "") >>
    \o AtomicWriteCode("html")
    \o << I("load_index", ""), I("read_existing_meta", ""), I("resolve_meta", "") >>
    \o AtomicWriteCode("meta")
    \o << I("index_insert", "") >>
    \o SaveIndexCode

UpdatePageHtmlCode ==
    PageExistsCode("present")
    \o << I("validate_html", "") >>
    \o AtomicWriteCode("html")
    \o << I("read_meta", ""), I("load_index", ""), I("resolve_meta_html", "") >>
    \o AtomicWriteCode("meta")
    \o << I("index_insert", "") >>
    \o SaveIndexCode

\* Mutant of DeletePageCode: the index entry is left in place.
DeletePageCode_DirOnly == PageExistsCode("present") \o << I("remove_dir_all", "") >>

DeletePageCode ==
    PageExistsCode("present")
    \o << I("remove_dir_all", ""), I("load_index", ""), I("index_remove", "") >>
    \o SaveIndexCode

LoadPageCode == << I("read_meta", ""), I("read_html", "") >>

\* Mutant of RebuildIndexCode: the rebuilt index is not saved.
RebuildIndexCode_NoSave == << I("rebuild_scan", "") >>

RebuildIndexCode == << I("rebuild_scan", "") >> \o SaveIndexCode

CreatePageAutoUidCode ==
    << I("load_index", ""), I("auto_uid", "") >> \o CreatePageCode \o LoadPageCode

ListPagesCode == << I("load_index", ""), I("list_keys", "") >>

ResolvePageIdByUidCode == << I("load_index", ""), I("resolve_uid", "") >>

NewCall(op, page_id, meta, html, draws, code) ==
    [op |-> op, page_id |-> page_id, meta |-> meta, html |-> html, draws |-> draws,
     k |-> code, res |-> "", index |-> EmptyIndex, existing_meta |-> None,
     meta_to_write |-> NullMeta, now_ts |-> 0,
     out_meta |-> None, out_html |-> None, out_keys |-> {}, out_id |-> None]

Fail(fs, l, err) == [fs |-> fs, l |-> [l EXCEPT !.k = <<>>, !.res = err]]
Go(fs, l) == [fs |-> fs, l |-> [l EXCEPT !.k = Tail(l.k)]]

AwData(l, f) ==
    CASE f = "meta" -> l.meta_to_write [] f = "html" -> l.html [] f = "index" -> l.index

\* One step of a call, on filesystem fs at time clock.
Exec(fs, clock, l) ==
    LET ins == Head(l.k)
        safe_id == sanitize_page_id(l.page_id)
    IN
    CASE ins.i = "load_index" ->
           \* load_index: a missing or unparsable index.json is rebuilt
           IF fs.index.st = "ok"
           THEN Go(fs, [l EXCEPT !.index = fs.index.data])
           ELSE [fs |-> fs, l |-> [l EXCEPT !.k = RebuildIndexCode \o Tail(l.k)]]
      [] ins.i = "rebuild_scan" ->
           Go(fs, [l EXCEPT !.index = ScanIndex(fs)])
      [] ins.i = "check_exists" ->
           LET exists == page_exists(fs, l.index, l.page_id) IN
           IF ins.f = "absent" /\ exists THEN Fail(fs, l, "page already exists")
           ELSE IF ins.f = "present" /\ ~exists THEN Fail(fs, l, "page not found")
           ELSE Go(fs, l)
      [] ins.i = "mkdir_page" ->
           Go(create_dir_all(fs, safe_id), l)
      [] ins.i = "read_existing_meta" ->
           LET file == GetFile(fs, safe_id, "meta") IN
           IF ~Exists(file) THEN Go(fs, [l EXCEPT !.existing_meta = None])
           ELSE IF file.st = "ok" THEN Go(fs, [l EXCEPT !.existing_meta = Some(file.data)])
           ELSE Fail(fs, l, "parse meta.json")
      [] ins.i = "resolve_meta" ->
           LET uid == ResolvePageUid(l.existing_meta, l.index, safe_id, l.meta, l.draws)
               created_at == ResolveCreatedAt(l.existing_meta, l.meta, clock)
           IN  IF uid = None THEN Fail(fs, l, "failed to generate unique page uid")
               ELSE Go(fs, [l EXCEPT !.now_ts = clock,
                                     !.meta_to_write =
                                         MetaToWrite(l.meta, uid[1], created_at, clock)])
      [] ins.i = "read_meta" ->
           LET file == GetFile(fs, safe_id, "meta") IN
           IF ~Exists(file) THEN Fail(fs, l, "read meta.json")
           ELSE IF file.st = "ok"
           THEN Go(fs, [l EXCEPT !.existing_meta = Some(file.data),
                                 !.out_meta = Some(file.data)])
           ELSE Fail(fs, l, "parse meta.json")
      [] ins.i = "read_html" ->
           LET file == GetFile(fs, safe_id, "html") IN
           IF ~Exists(file) THEN Fail(fs, l, "read index.html")
           ELSE Go(fs, [l EXCEPT !.out_html = Some(file.data)])
      [] ins.i = "resolve_meta_html" ->
           LET meta == l.existing_meta[1]
               uid == ResolvePageUidHtml(meta, l.index, safe_id, l.draws)
           IN  IF uid = None THEN Fail(fs, l, "failed to generate unique page uid")
               ELSE Go(fs, [l EXCEPT !.now_ts = clock,
                                     !.meta_to_write = MetaToWriteHtml(meta, uid[1], clock)])
      [] ins.i = "validate_html" ->
           IF validate_html(l.html).ok THEN Go(fs, l) ELSE Fail(fs, l, "validate html")
      [] ins.i = "index_insert" ->
           Go(fs, [l EXCEPT !.index =
                      IndexInsert(l.index, safe_id,
                                  IndexEntry(l.index, safe_id, l.page_id, l.meta_to_write))])
      [] ins.i = "index_remove" ->
           Go(fs, [l EXCEPT !.index = IndexRemove(l.index, safe_id)])
      [] ins.i = "remove_dir_all" ->
           IF IsDir(fs, safe_id) THEN Go(remove_dir_all(fs, safe_id), l)
           ELSE Fail(fs, l, "remove page dir")
      [] ins.i = "auto_uid" ->
           LET uid == generate_unique_page_uid(l.index, l.draws) IN
           IF uid = None THEN Fail(fs, l, "failed to generate unique page uid")
           ELSE Go(fs, [l EXCEPT !.page_id = uid[1], !.meta.page_uid = uid[1]])
      [] ins.i = "list_keys" ->
           Go(fs, [l EXCEPT !.out_keys = DOMAIN l.index])
      [] ins.i = "resolve_uid" ->
           Go(fs, [l EXCEPT !.out_id = ResolvePageIdByUid(l.index, l.page_id)])
      \* atomic_write
      [] ins.i = "aw_mkparent" ->
           IF ins.f = "index" THEN Go(fs, l) ELSE Go(create_dir_all(fs, safe_id), l)
      [] ins.i = "aw_write" ->
           IF ParentExists(fs, safe_id, ins.f)
           THEN Go(PutFile(fs, safe_id, TmpOf(ins.f), FileOf(AwData(l, ins.f))), l)
           ELSE Fail(fs, l, "write temp file")
      [] ins.i = "aw_remove" ->
           IF Exists(GetFile(fs, safe_id, ins.f))
           THEN Go(PutFile(fs, safe_id, ins.f, Absent), l)
           ELSE Go(fs, l)
      [] ins.i = "aw_rename" ->
           IF Exists(GetFile(fs, safe_id, TmpOf(ins.f)))
           THEN Go(PutFile(PutFile(fs, safe_id, ins.f, GetFile(fs, safe_id, TmpOf(ins.f))),
                           safe_id, TmpOf(ins.f), Absent), l)
           ELSE Fail(fs, l, "rename temp file")

\* Steps that touch no file: they run with the filesystem step before them.
LocalSteps ==
    { I("validate_html", ""), I("index_insert", ""), I("index_remove", ""),
      I("list_keys", ""), I("resolve_uid", ""), I("resolve_meta", ""), I("resolve_meta_html", ""),
      I("auto_uid", ""), I("aw_mkparent", "index") }

Finished(r) ==
    IF r.l.k = <<>> /\ r.l.res = "" THEN [r EXCEPT !.l.res = "ok"] ELSE r

RECURSIVE RunLocal(_, _)
RunLocal(r, clock) ==
    IF r.l.k # <<>> /\ Head(r.l.k) \in LocalSteps
    THEN RunLocal(Exec(r.fs, clock, r.l), clock)
    ELSE Finished(r)

\* One scheduled step of a call.
StepCall(fs, clock, l) == RunLocal(Exec(fs, clock, l), clock)

\* A call run from start to return with nothing interleaved.
RECURSIVE RunCall(_, _)
RunCall(r, clock) ==
    IF r.l.k = <<>> THEN Finished(r)
    ELSE RunCall(Exec(r.fs, clock, r.l), clock)

----------------------------------------------------------------------------
(* Inputs of the model                                                     *)

MaxClock == 2
MaxOps == 2

RawIds == { <<"a">>, <<"a", "/">>, <<"a", "_">> }

CallerUid == <<"u", "1">>

Metas ==
    { [seo |-> "s1", page_uid |-> <<>>, created_at |-> 0, updated_at |-> 0,
       extra |-> "e1"],
      [seo |-> "s2", page_uid |-> CallerUid, created_at |-> 2, updated_at |-> 0,
       extra |-> "e2"] }

HtmlOk1 == <<"<", "p", ">", "o", "k", "<", "/", "p", ">">>
HtmlOk2 == <<"<", "b", "r", ">">>
HtmlBad == <<"<", "p", ">", "o", "k">>
Htmls == { HtmlOk1, HtmlOk2, HtmlBad }

\* What getrandom may hand to the draws of one call: every byte of a draw alike.
Draw(b) == [i \in 1..PAGE_UID_LEN |-> b]
RandomStreams ==
    { [n \in 1..UID_ATTEMPTS |-> Draw(0)],
      [n \in 1..UID_ATTEMPTS |-> IF n = 1 THEN Draw(62) ELSE Draw(27)] }

NoDraws == [n \in 1..UID_ATTEMPTS |-> Draw(0)]

\* the uids resolve_page_id_by_uid is asked for: a directory id, the uid a
\* caller passes, a generated uid
UidQueries == { <<"a">>, CallerUid, generate_page_uid(Draw(0)) }

----------------------------------------------------------------------------
(* State                                                                   *)

VARIABLES
    fs,      \* the tree under base_dir
    clock,   \* SystemTime::now() in seconds
    nops,    \* calls made so far
    last,    \* the call that returned last, with its arguments and result
    procs,   \* the call each thread is running, or ran (SpecConc)
    fs0,     \* the tree the threads started on (SpecConc)
    allok,   \* every call so far returned Ok
    arg,     \* the input a pure function is applied to (SpecSanitize, SpecValidate, SpecInject)
    ret      \* what the function returned for it

vars == <<fs, clock, nops, last, procs, fs0, allok, arg, ret>>

Procs == {"p1", "p2"}

Summary(l) ==
    [op |-> l.op, page_id |-> l.page_id, meta |-> l.meta, html |-> l.html,
     res |-> l.res, now_ts |-> l.now_ts, out_meta |-> l.out_meta,
     out_html |-> l.out_html, out_keys |-> l.out_keys, out_id |-> l.out_id,
     out_index |-> IF l.op = "rebuild_index" /\ l.res = "ok" THEN Some(l.index) ELSE None]

\* no function applied yet
NoRet == [f |-> "none"]

Idle == NewCall("none", <<>>, NullMeta, <<>>, NoDraws, <<>>)
NoCall == Summary(Idle)

Init ==
    /\ fs = EmptyFs
    /\ clock = 1
    /\ nops = 0
    /\ last = NoCall
    /\ procs = [p \in Procs |-> Idle]
    /\ fs0 = EmptyFs
    /\ allok = TRUE
    /\ arg = <<>>
    /\ ret = NoRet

Returned(r) ==
    /\ fs' = r.fs
    /\ last' = Summary(r.l)
    /\ nops' = nops + 1
    /\ allok' = (allok /\ r.l.res = "ok")
    /\ UNCHANGED <<clock, procs, fs0, arg, ret>>

\* A call is made and runs to its return with no other call interleaved.
Run(l) == RunCall([fs |-> fs, l |-> l], clock)

create_page ==
    \E id \in RawIds, meta \in Metas, html \in Htmls, draws \in RandomStreams :
        /\ nops < MaxOps
        /\ Returned(Run(NewCall("create_page", id, meta, html, draws, CreatePageCode)))

create_page_auto_uid ==
    \E meta \in Metas, html \in Htmls, draws \in RandomStreams :
        /\ nops < MaxOps
        /\ Returned(Run(NewCall("create_page_auto_uid", <<>>, meta, html, draws,
                                CreatePageAutoUidCode)))

update_page ==
    \E id \in RawIds, meta \in Metas, html \in Htmls, draws \in RandomStreams :
        /\ nops < MaxOps
        /\ Returned(Run(NewCall("update_page", id, meta, html, draws, UpdatePageCode)))

update_page_meta ==
    \E id \in RawIds, meta \in Metas, draws \in RandomStreams :
        /\ nops < MaxOps
        /\ Returned(Run(NewCall("update_page_meta", id, meta, <<>>, draws,
                                UpdatePageMetaCode)))

update_page_html ==
    \E id \in RawIds, html \in Htmls, draws \in RandomStreams :
        /\ nops < MaxOps
        /\ Returned(Run(NewCall("update_page_html", id, NullMeta, html, draws,
                                UpdatePageHtmlCode)))

delete_page ==
    \E id \in RawIds :
        /\ nops < MaxOps
        /\ Returned(Run(NewCall("delete_page", id, NullMeta, <<>>, NoDraws,
                                DeletePageCode)))

load_page ==
    \E id \in RawIds :
        /\ nops < MaxOps
        /\ Returned(Run(NewCall("load_page", id, NullMeta, <<>>, NoDraws, LoadPageCode)))

rebuild_index ==
    /\ nops < MaxOps
    /\ Returned(Run(NewCall("rebuild_index", <<>>, NullMeta, <<>>, NoDraws,
                            RebuildIndexCode)))

list_pages ==
    /\ nops < MaxOps
    /\ Returned(Run(NewCall("list_pages", <<>>, NullMeta, <<>>, NoDraws, ListPagesCode)))

resolve_page_id_by_uid ==
    \E page_uid \in UidQueries :
        /\ nops < MaxOps
        /\ Returned(Run(NewCall("resolve_page_id_by_uid", page_uid, NullMeta, <<>>,
                                NoDraws, ResolvePageIdByUidCode)))

Tick ==
    /\ clock < MaxClock
    /\ clock' = clock + 1
    /\ UNCHANGED <<fs, nops, last, procs, fs0, allok, arg, ret>>

Next ==
    \/ create_page
    \/ create_page_auto_uid
    \/ update_page
    \/ update_page_meta
    \/ update_page_html
    \/ delete_page
    \/ load_page
    \/ rebuild_index
    \/ list_pages
    \/ resolve_page_id_by_uid
    \/ Tick

Spec == Init /\ [][Next]_vars

----------------------------------------------------------------------------
(* Threads calling the store concurrently (SpecConc): each thread makes    *)
(* one call; a step of the system is one filesystem step of one call.      *)
(* PageStore holds no lock, so any interleaving of the steps can happen.   *)

ConcIds == { <<"a">>, <<"b">> }
HtmlOk3 == <<"<", "h", "r", ">">>

\* Each thread writes content of its own, so that a write can be told apart.
ConcMeta(p) ==
    [seo |-> IF p = "p1" THEN "s2" ELSE "s3", page_uid |-> <<>>, created_at |-> 0,
     updated_at |-> 0, extra |-> "e1"]
ConcHtml(p) == IF p = "p1" THEN HtmlOk2 ELSE HtmlOk3
ConcDraws(p) == [n \in 1..UID_ATTEMPTS |-> IF p = "p1" THEN Draw(0) ELSE Draw(27)]

ConcCalls(p) ==
    { NewCall("create_page", id, ConcMeta(p), ConcHtml(p), ConcDraws(p), CreatePageCode)
        : id \in ConcIds }
    \cup { NewCall("update_page", id, ConcMeta(p), ConcHtml(p), ConcDraws(p),
                   UpdatePageCode) : id \in ConcIds }
    \cup { NewCall("update_page_meta", id, ConcMeta(p), <<>>, ConcDraws(p),
                   UpdatePageMetaCode) : id \in ConcIds }
    \cup { NewCall("update_page_html", id, NullMeta, ConcHtml(p), ConcDraws(p),
                   UpdatePageHtmlCode) : id \in ConcIds }
    \cup { NewCall("delete_page", id, NullMeta, <<>>, NoDraws, DeletePageCode)
        : id \in ConcIds }
    \cup { NewCall("load_page", id, NullMeta, <<>>, NoDraws, LoadPageCode)
        : id \in ConcIds }

\* The stores the threads start on: a fresh base_dir, and a store holding
\* page "a", each as the calls themselves leave it.
FsOnePage ==
    RunCall([fs |-> EmptyFs,
             l |-> NewCall("create_page", <<"a">>,
                           [seo |-> "s1", page_uid |-> <<>>, created_at |-> 0,
                            updated_at |-> 0, extra |-> "e1"],
                           HtmlOk1, [n \in 1..UID_ATTEMPTS |-> Draw(52)],
                           CreatePageCode)], 1).fs

ConcStarts == { EmptyFs, FsOnePage }

InitConc ==
    /\ fs \in ConcStarts
    /\ fs0 = fs
    /\ clock = 1
    /\ nops = 0
    /\ last = NoCall
    /\ procs = [p \in Procs |-> Idle]
    /\ allok = TRUE
    /\ arg = <<>>
    /\ ret = NoRet

\* Thread p makes its call.
Begin ==
    \E p \in Procs : \E c \in ConcCalls(p) :
        /\ procs[p].op = "none"
        /\ procs' = [procs EXCEPT ![p] = c]
        /\ UNCHANGED <<fs, clock, nops, last, fs0, allok, arg, ret>>

Stepped(p, r) ==
    /\ fs' = r.fs
    /\ procs' = [procs EXCEPT ![p] = r.l]
    /\ UNCHANGED <<clock, nops, last, fs0, allok, arg, ret>>

\* The call of thread p takes its next filesystem step.
Step ==
    \E p \in Procs :
        /\ procs[p].k # <<>>
        /\ Stepped(p, StepCall(fs, clock, procs[p]))

NextConc == Begin \/ Step

SpecConc == InitConc /\ [][NextConc]_vars

----------------------------------------------------------------------------
(* The same calls on a base_dir that something else damages between calls  *)
(* (SpecFaulty): index.json removed or left unparsable, a meta.json removed *)
(* or left unparsable.  These are the conditions load_index and            *)
(* rebuild_index test for.                                                 *)

Corrupt == [st |-> "corrupt"]

damage_index ==
    /\ nops < MaxOps
    /\ fs.index.st = "ok"
    /\ \E file \in {Absent, Corrupt} : fs' = [fs EXCEPT !.index = file]
    /\ UNCHANGED <<clock, nops, last, procs, fs0, allok, arg, ret>>

damage_meta ==
    /\ nops < MaxOps
    /\ \E d \in DOMAIN fs.dirs : \E file \in {Absent, Corrupt} :
          /\ fs.dirs[d].meta.st = "ok"
          /\ fs' = [fs EXCEPT !.dirs[d].meta = file]
    /\ UNCHANGED <<clock, nops, last, procs, fs0, allok, arg, ret>>

NextFaulty == Next \/ damage_index \/ damage_meta

\* The store is a fresh base_dir or already holds page "a".
InitFaulty ==
    /\ fs \in ConcStarts
    /\ clock = 1
    /\ nops = 0
    /\ last = NoCall
    /\ procs = [p \in Procs |-> Idle]
    /\ fs0 = fs
    /\ allok = TRUE
    /\ arg = <<>>
    /\ ret = NoRet

SpecFaulty == InitFaulty /\ [][NextFaulty]_vars

----------------------------------------------------------------------------
(* Claims about calls made one after the other (Spec)                      *)

MetaOk(f, d) == IsDir(f, d) /\ f.dirs[d].meta.st = "ok"
StoredMeta(f, d) == f.dirs[d].meta.data
Called(ops) == nops' # nops /\ last'.op \in ops
Target == sanitize_page_id(last.page_id)
TargetNext == sanitize_page_id(last'.page_id)
\* the page records and the index a caller can read are as before the call
NothingApplied == fs'.dirs = fs.dirs /\ LoadedIndex(fs') = LoadedIndex(fs)

\* C1: a create_page, update_page or update_page_html call whose HTML fails
\* validate_html returns an error and leaves every page directory, meta.json,
\* index.html and the index as they were before the call.
C1_InvalidHtmlAppliesNothing ==
    [][ (Called({"create_page", "update_page", "update_page_html"})
         /\ ~validate_html(last'.html).ok)
        => (last'.res # "ok" /\ NothingApplied) ]_vars

\* C2: after any sequence of calls the keys of the index (what list_pages
\* returns) are exactly the page directories that hold a parsable meta.json.
C2_IndexKeysAreDirsWithMeta ==
    DOMAIN LoadedIndex(fs) = { d \in DOMAIN fs.dirs : MetaOk(fs, d) }

\* C5: once a page is persisted with a non-empty page_uid, no update_page,
\* update_page_meta, update_page_html or rebuild_index call changes the
\* page_uid in its meta.json or in its index entry, whatever the caller passes.
C5_PageUidImmutable ==
    [][ Called({"update_page", "update_page_meta", "update_page_html", "rebuild_index"})
        => \A d \in DOMAIN fs.dirs :
             /\ (MetaOk(fs, d) /\ StoredMeta(fs, d).page_uid # <<>>)
                => (MetaOk(fs', d)
                    /\ StoredMeta(fs', d).page_uid = StoredMeta(fs, d).page_uid)
             /\ (d \in DOMAIN LoadedIndex(fs) /\ LoadedIndex(fs)[d].page_uid # <<>>)
                => (d \in DOMAIN LoadedIndex(fs')
                    /\ LoadedIndex(fs')[d].page_uid = LoadedIndex(fs)[d].page_uid) ]_vars

\* C5 witness: an update_page that passed a page_uid of its own returned ok and
\* the page kept another page_uid.
C5_Witness ==
    /\ last.op = "update_page" /\ last.res = "ok"
    /\ last.meta.page_uid # <<>>
    /\ MetaOk(fs, Target)
    /\ StoredMeta(fs, Target).page_uid # last.meta.page_uid

\* C6: created_at is set when the page is first persisted and no later
\* update_page, update_page_meta or update_page_html changes it, whatever
\* created_at the caller passes; load_page returns that stored value.
C6_CreatedAtNeverChanges ==
    [][ /\ Called({"update_page", "update_page_meta", "update_page_html"})
           => \A d \in DOMAIN fs.dirs :
                MetaOk(fs, d)
                => (MetaOk(fs', d)
                    /\ StoredMeta(fs', d).created_at = StoredMeta(fs, d).created_at)
        /\ (Called({"load_page"}) /\ last'.res = "ok")
           => (MetaOk(fs, TargetNext)
               /\ last'.out_meta[1].created_at = StoredMeta(fs, TargetNext).created_at)
      ]_vars

\* C6 witness: an update_page_meta that passed a positive created_at returned ok
\* and the page kept another created_at.
C6_Witness ==
    /\ last.op = "update_page_meta" /\ last.res = "ok"
    /\ last.meta.created_at > 0
    /\ MetaOk(fs, Target)
    /\ StoredMeta(fs, Target).created_at # last.meta.created_at

\* C7: every persisted meta.json has created_at > 0 and updated_at >= created_at,
\* for every metadata a caller passes.
C7_TimestampsOrdered ==
    \A d \in DOMAIN fs.dirs :
        MetaOk(fs, d)
        => (StoredMeta(fs, d).created_at > 0
            /\ StoredMeta(fs, d).updated_at >= StoredMeta(fs, d).created_at)

\* C8: every successful save_page, update_page_meta or update_page_html sets
\* the page's updated_at to the current time, and no call ever lowers the
\* updated_at of a page that stays.
C8_UpdatedAtAdvances ==
    [][ /\ (Called({"create_page", "update_page", "update_page_meta", "update_page_html"})
            /\ last'.res = "ok")
           => (MetaOk(fs', TargetNext) /\ StoredMeta(fs', TargetNext).updated_at = clock)
        /\ \A d \in DOMAIN fs.dirs :
             (MetaOk(fs, d) /\ MetaOk(fs', d))
             => StoredMeta(fs', d).updated_at >= StoredMeta(fs, d).updated_at ]_vars

\* C8 witness: an update_page_html returned ok at a later time than the page's
\* creation and the stored updated_at is that later time.
C8_Witness ==
    /\ last.op = "update_page_html" /\ last.res = "ok"
    /\ MetaOk(fs, Target)
    /\ StoredMeta(fs, Target).updated_at = clock
    /\ StoredMeta(fs, Target).created_at < clock

\* C9: create_page fails with "page already exists" whenever the sanitized id
\* is a key of the index or a directory of that name exists, and then leaves
\* the page records and the index untouched.
C9_CreateExistingFails ==
    [][ (Called({"create_page"})
         /\ (TargetNext \in DOMAIN LoadedIndex(fs) \/ IsDir(fs, TargetNext)))
        => (last'.res = "page already exists" /\ NothingApplied) ]_vars

\* C9 witness: a create_page whose raw id differs from the raw id the page was
\* created with, and sanitizes to the same id, failed with "page already exists".
C9_Witness ==
    /\ last.op = "create_page" /\ last.res = "page already exists"
    /\ last.page_id # Target
    /\ Target \in DOMAIN LoadedIndex(fs)
    /\ LoadedIndex(fs)[Target].original_id = None

\* C10: update_page, update_page_meta, update_page_html and delete_page fail
\* with "page not found" when the sanitized id has neither an index entry nor a
\* directory, and then create no directory, file or index entry.
C10_MissingPageNotFound ==
    [][ (Called({"update_page", "update_page_meta", "update_page_html", "delete_page"})
         /\ TargetNext \notin DOMAIN LoadedIndex(fs) /\ ~IsDir(fs, TargetNext))
        => (last'.res = "page not found" /\ NothingApplied
            /\ TargetNext \notin DOMAIN LoadedIndex(fs') /\ ~IsDir(fs', TargetNext)) ]_vars

\* C10 witness: an update_page_html of an id with no record failed with
\* "page not found" while another page is stored.
C10_Witness ==
    /\ last.op = "update_page_html" /\ last.res = "page not found"
    /\ ~IsDir(fs, Target)
    /\ DOMAIN fs.dirs # {}

----------------------------------------------------------------------------
(* Claims about concurrent calls (SpecConc)                                *)

Mutating ==
    {"create_page", "update_page", "update_page_meta", "update_page_html", "delete_page"}
SidOf(p) == sanitize_page_id(procs[p].page_id)
Returned_(p) == procs[p].op # "none" /\ procs[p].res # ""

\* C3: when two mutating calls on different page ids run concurrently and both
\* return success, the final index holds the effect of both: the entry of each
\* page created or updated is present, the entry of each page deleted is not.
C3_IndexMutationsAtomic ==
    ( /\ \A p \in Procs : procs[p].op \in Mutating /\ procs[p].res = "ok"
      /\ \A p, q \in Procs : p # q => SidOf(p) # SidOf(q) )
    => \A p \in Procs :
         IF procs[p].op = "delete_page"
         THEN SidOf(p) \notin DOMAIN LoadedIndex(fs)
         ELSE SidOf(p) \in DOMAIN LoadedIndex(fs)

\* C4: a load_page of a page whose meta.json and index.html exist, running
\* while another thread rewrites them with atomic_write, returns a complete
\* document for each: the previous content or the content written, never an
\* absent file.
C4_ReaderSeesCompleteDocument ==
    \A p \in Procs :
        ( /\ procs[p].op = "load_page" /\ Returned_(p)
          /\ MetaOk(fs0, SidOf(p)) /\ Exists(fs0.dirs[SidOf(p)].html)
          /\ \A q \in Procs \ {p} : procs[q].op # "delete_page" )
        => /\ procs[p].res = "ok"
           /\ procs[p].out_meta[1] \in
                {StoredMeta(fs0, SidOf(p))}
                \cup { procs[q].meta_to_write : q \in Procs \ {p} }
           /\ procs[p].out_html[1] \in
                {fs0.dirs[SidOf(p)].html.data} \cup { procs[q].html : q \in Procs \ {p} }

----------------------------------------------------------------------------
(* Claims about what a caller reads back (Spec)                            *)

\* what load_page(page_id) returns on the tree f
LoadPageOn(f, page_id) ==
    RunCall([fs |-> f,
             l |-> NewCall("load_page", page_id, NullMeta, <<>>, NoDraws, LoadPageCode)],
            1).l

\* C11: when create_page_auto_uid(meta, html) returns saved metadata m, then
\* load_page(m.page_uid) succeeds with the seo of meta and with html itself;
\* m.page_uid is not empty and m.created_at and m.updated_at are set.
C11_AutoUidRoundTrip ==
    [][ (Called({"create_page_auto_uid"}) /\ last'.res = "ok")
        => /\ last'.out_meta # None
           /\ LET m == last'.out_meta[1]
                  loaded == LoadPageOn(fs', m.page_uid)
              IN  /\ m.page_uid # <<>>
                  /\ m.created_at > 0
                  /\ m.updated_at > 0
                  /\ loaded.res = "ok"
                  /\ loaded.out_meta[1].seo = last'.meta.seo
                  /\ loaded.out_html[1] = last'.html ]_vars

\* C11 witness: a create_page_auto_uid returned the metadata of a second page,
\* stored under a uid other than the first page's.
C11_Witness ==
    /\ last.op = "create_page_auto_uid" /\ last.res = "ok"
    /\ last.out_meta # None
    /\ MetaOk(fs, last.out_meta[1].page_uid)
    /\ fs.dirs[last.out_meta[1].page_uid].html = FileOf(last.html)
    /\ Cardinality(DOMAIN fs.dirs) = 2

\* C12: after a successful update_page_meta(id, m), load_page(id) returns
\* metadata with the seo of m; after a successful update_page_html(id, h) it
\* returns h; after a successful update_page(id, m, h) it returns both.
C12_ReadYourWrites ==
    [][ /\ (Called({"update_page_meta", "update_page"}) /\ last'.res = "ok")
           => LET loaded == LoadPageOn(fs', last'.page_id)
              IN  loaded.res = "ok" /\ loaded.out_meta[1].seo = last'.meta.seo
        /\ (Called({"update_page_html", "update_page"}) /\ last'.res = "ok")
           => LET loaded == LoadPageOn(fs', last'.page_id)
              IN  loaded.res = "ok" /\ loaded.out_html[1] = last'.html ]_vars

\* what list_pages() returns on the tree f
ListPagesOn(f) ==
    RunCall([fs |-> f,
             l |-> NewCall("list_pages", <<>>, NullMeta, <<>>, NoDraws, ListPagesCode)],
            1).l.out_keys

\* the page d has neither a directory nor an index entry on the tree f
Gone(f, d) == ~IsDir(f, d) /\ d \notin ListPagesOn(f)

\* C13: after a successful delete_page(id), page_exists(id) is false,
\* list_pages() does not hold the sanitized id and load_page(id) fails; and a
\* page that is gone stays gone under every call but a create of that id.
C13_DeletedStaysGone ==
    [][ /\ (Called({"delete_page"}) /\ last'.res = "ok")
           => /\ ~page_exists(fs', LoadedIndex(fs'), last'.page_id)
              /\ TargetNext \notin ListPagesOn(fs')
              /\ LoadPageOn(fs', last'.page_id).res # "ok"
        /\ \A d \in DOMAIN fs'.dirs \cup ListPagesOn(fs') :
             (nops' # nops /\ Gone(fs, d))
             => (last'.op \in {"create_page", "create_page_auto_uid"} /\ TargetNext = d)
      ]_vars

\* C13 witness: a delete_page by a raw id that is not the directory name
\* returned ok and the page is gone.
C13_Witness ==
    /\ last.op = "delete_page" /\ last.res = "ok"
    /\ last.page_id # Target
    /\ Gone(fs, Target)
    /\ fs.index.st = "ok"

----------------------------------------------------------------------------
(* Claims about delete_page among concurrent calls (SpecConc)              *)

\* C14: delete_page removes the directory and the index entry of the page as
\* one unit: while a delete_page(d) runs next to a load_page that has still to
\* read, the directory of d exists exactly when the index lists d.
C14_DeleteIsOneUnit ==
    \A p \in Procs :
        ( /\ procs[p].op = "delete_page"
          /\ \A q \in Procs \ {p} : procs[q].op = "load_page" /\ procs[q].k # <<>> )
        => (IsDir(fs, SidOf(p)) <=> SidOf(p) \in DOMAIN LoadedIndex(fs))

----------------------------------------------------------------------------
(* Claims about partial updates, lookups and the rebuilt index (Spec)      *)

\* C15: a successful update_page_meta leaves index.html as it was; a successful
\* update_page_html leaves seo, page_uid, created_at and extra of meta.json as
\* they were, and leaves seo and original_id of the index entry as they were.
C15_PartialUpdateKeepsTheRest ==
    [][ /\ (Called({"update_page_meta"}) /\ last'.res = "ok" /\ IsDir(fs, TargetNext))
           => fs'.dirs[TargetNext].html = fs.dirs[TargetNext].html
        /\ (Called({"update_page_html"}) /\ last'.res = "ok" /\ MetaOk(fs, TargetNext))
           => LET old == StoredMeta(fs, TargetNext)
                  new == StoredMeta(fs', TargetNext)
              IN  /\ new.seo = old.seo /\ new.page_uid = old.page_uid
                  /\ new.created_at = old.created_at /\ new.extra = old.extra
                  /\ TargetNext \in DOMAIN LoadedIndex(fs)
                     => /\ LoadedIndex(fs')[TargetNext].seo = LoadedIndex(fs)[TargetNext].seo
                        /\ LoadedIndex(fs')[TargetNext].original_id
                             = LoadedIndex(fs)[TargetNext].original_id ]_vars

\* C16: resolve_page_id_by_uid(uid) returns None exactly when no indexed page
\* has page_uid = uid, and otherwise the directory id of a page whose page_uid
\* is uid; it never returns the id of a page with another page_uid.
C16_ResolveFindsThePageOfTheUid ==
    [][ Called({"resolve_page_id_by_uid"})
        => LET index == LoadedIndex(fs)
               uid == last'.page_id
               out == last'.out_id
           IN  /\ last'.res = "ok"
               /\ (out = None) <=> (\A k \in DOMAIN index : index[k].page_uid # uid)
               /\ out # None => (out[1] \in DOMAIN index /\ index[out[1]].page_uid = uid)
      ]_vars

----------------------------------------------------------------------------
(* Claims about a damaged base_dir (SpecFaulty)                            *)

\* the directories of the tree f whose meta.json reads and parses
DirsWithMeta(f) == { d \in DOMAIN f.dirs : f.dirs[d].meta.st = "ok" }

\* C17: rebuild_index never fails because of a bad page: it returns and writes
\* an index whose keys are exactly the directories whose meta.json reads and
\* parses, each entry with the seo and page_uid of that meta.json; directories
\* with a missing or unparsable meta.json are skipped and left as they are.
C17_RebuildSkipsBadPages ==
    [][ Called({"rebuild_index"})
        => /\ last'.res = "ok"
           /\ fs'.index.st = "ok"
           /\ last'.out_index = Some(fs'.index.data)
           /\ DOMAIN fs'.index.data = DirsWithMeta(fs)
           /\ \A d \in DirsWithMeta(fs) :
                /\ fs'.index.data[d].seo = StoredMeta(fs, d).seo
                /\ fs'.index.data[d].page_uid = StoredMeta(fs, d).page_uid
           /\ fs'.dirs = fs.dirs ]_vars

\* C17 witness: a rebuild_index returned an index of one page on a base_dir with
\* one more directory, whose meta.json does not parse.
C17_Witness ==
    /\ last.op = "rebuild_index" /\ last.res = "ok"
    /\ last.out_index # None
    /\ Cardinality(DOMAIN last.out_index[1]) = 1
    /\ \E d \in DOMAIN fs.dirs : fs.dirs[d].meta = Corrupt
    /\ fs.index.st = "ok" /\ DOMAIN fs.index.data = DOMAIN last.out_index[1]

\* the calls that load the index
IndexCalls ==
    {"list_pages", "resolve_page_id_by_uid", "create_page", "create_page_auto_uid",
     "update_page", "update_page_meta", "update_page_html", "delete_page"}

\* C19: when index.json is missing or does not parse, every call that loads
\* the index rebuilds it from the page directories, goes on with the rebuilt
\* index instead of failing, and leaves a parsable index.json: lookups answer
\* from the rebuilt index, existence checks see it, and the index saved holds
\* the rebuilt entries with the call's own change.
C19_SelfHealing ==
    [][ (Called(IndexCalls) /\ fs.index.st # "ok")
        => LET rebuilt == DirsWithMeta(fs)
               op == last'.op
               ok == last'.res = "ok"
           IN  /\ fs'.index.st = "ok"
               /\ op = "list_pages" => (ok /\ last'.out_keys = rebuilt)
               /\ op = "resolve_page_id_by_uid"
                  => (ok /\ (last'.out_id # None => last'.out_id[1] \in rebuilt))
               /\ (op = "create_page" /\ TargetNext \in rebuilt)
                  => last'.res = "page already exists"
               /\ op \in {"update_page", "update_page_meta", "update_page_html",
                           "delete_page"}
                  => (last'.res = "page not found" <=> ~IsDir(fs, TargetNext))
               /\ DOMAIN fs'.index.data =
                    IF ok /\ op = "delete_page" THEN rebuilt \ {TargetNext}
                    ELSE IF ok /\ op \notin {"list_pages", "resolve_page_id_by_uid"}
                    THEN rebuilt \cup {TargetNext}
                    ELSE rebuilt ]_vars

\* C19 witness: on a store that held page "a", with index.json and the
\* meta.json of "a" damaged since, a list_pages returned the rebuilt (empty)
\* index and left it in index.json.
C19_Witness ==
    /\ fs0 = FsOnePage /\ nops = 1
    /\ last.op = "list_pages" /\ last.res = "ok" /\ last.out_keys = {}
    /\ IsDir(fs, <<"a">>)
    /\ fs.index = FileOf(EmptyIndex)

----------------------------------------------------------------------------
(* Claims about the rebuilt index and uid generation (Spec)                *)

\* C18: in a state reached by successful calls only, the index rebuild_index
\* produces equals the index that was current before it, entry for entry and
\* field for field (page_id, seo, page_uid, original_id).
C18_IndexIsReconstructible ==
    [][ (Called({"rebuild_index"}) /\ allok)
        => (fs'.index.st = "ok" /\ fs'.index.data = LoadedIndex(fs)) ]_vars

\* the random bytes generate_unique_page_uid is tried on: the first k draws give
\* the uid of Draw(0), the others the uid of Draw(27), for every k
UidStreams ==
    { [n \in 1..UID_ATTEMPTS |-> IF n <= k THEN Draw(0) ELSE Draw(27)] : k \in 0..UID_ATTEMPTS }
    \cup RandomStreams

\* the page_uids the entries of an index carry
UidsOf(index) == { index[k].page_uid : k \in DOMAIN index }

\* C20: generate_unique_page_uid(index) draws at most 8 candidates, returns the
\* first one that no entry of the index carries and fails exactly when all 8
\* collide; it changes no file: a create_page_auto_uid that fails on it leaves
\* the store as it was, one that succeeds stores a uid the index did not have.
C20_UniqueUidFromEightDraws ==
    [][ /\ \A draws \in UidStreams :
             LET index == LoadedIndex(fs)
                 candidate(n) == generate_page_uid(draws[n])
                 result == generate_unique_page_uid(index, draws)
             IN  /\ (result = None) <=> (\A n \in 1..8 : candidate(n) \in UidsOf(index))
                 /\ result # None
                    => \E n \in 1..8 :
                         /\ result[1] = candidate(n)
                         /\ candidate(n) \notin UidsOf(index)
                         /\ \A m \in 1..(n - 1) : candidate(m) \in UidsOf(index)
        /\ (Called({"create_page_auto_uid"})
            /\ last'.res = "failed to generate unique page uid")
           => NothingApplied
        /\ (Called({"create_page_auto_uid"}) /\ last'.res = "ok")
           => last'.page_id \notin UidsOf(LoadedIndex(fs)) ]_vars

\* C20 witness: a create_page_auto_uid whose first draw gave the uid of a page
\* in the index returned the uid of its second draw.
C20_Witness ==
    /\ last.op = "create_page_auto_uid" /\ last.res = "ok"
    /\ last.page_id = generate_page_uid(Draw(27))
    /\ generate_page_uid(Draw(62)) \in UidsOf(LoadedIndex(fs))

----------------------------------------------------------------------------
(* Claims about identifiers (Spec)                                         *)

\* a uid of exactly 16 characters, each of A-Z, a-z, 0-9
GeneratedShape(uid) ==
    /\ Len(uid) = 16
    /\ \A i \in 1..Len(uid) : uid[i] \in Range(Uppers) \cup Range(Lowers) \cup Range(Digits)

\* C21: a page_uid the store assigns has 16 characters of the alphabet A-Z,
\* a-z, 0-9, and every page_uid persisted in a meta.json has this shape.
C21_PageUidShape ==
    \A d \in DOMAIN fs.dirs :
        MetaOk(fs, d) => GeneratedShape(StoredMeta(fs, d).page_uid)

\* C23: once an index entry records an original_id (a raw id that sanitization
\* altered), every later update_page, update_page_meta, update_page_html and
\* rebuild_index keeps that original_id as it is.
C23_OriginalIdKept ==
    [][ Called({"update_page", "update_page_meta", "update_page_html", "rebuild_index"})
        => \A d \in DOMAIN LoadedIndex(fs) :
             LoadedIndex(fs)[d].original_id # None
             => /\ d \in DOMAIN LoadedIndex(fs')
                /\ LoadedIndex(fs')[d].original_id = LoadedIndex(fs)[d].original_id ]_vars

----------------------------------------------------------------------------
(* The pure functions applied to inputs of their own (SpecSanitize,         *)
(* SpecValidate, SpecInject): the store is left as constructed.            *)

StoreUntouched ==
    /\ fs = EmptyFs /\ clock = 1 /\ nops = 0 /\ last = NoCall
    /\ procs = [p \in Procs |-> Idle] /\ fs0 = EmptyFs /\ allok = TRUE

\* All sequences of at most n elements of S.
SeqsUpTo(S, n) == UNION { [1..k -> S] : k \in 0..n }

\* Raw ids: letters in both cases, a digit, the two characters kept besides
\* alphanumerics, a path separator, a dot, a space and a non-ASCII character
\* (one char, written "U+E9").
MaxIdLen == 3
IdChars == { "a", "Z", "7", "-", "_", "/", ".", " ", "U+E9" }
IdInputs == SeqsUpTo(IdChars, MaxIdLen)

InitSanitize ==
    /\ StoreUntouched
    /\ arg \in IdInputs
    /\ ret = NoRet

\* sanitize_page_id(arg)
Sanitize ==
    /\ ret.f = "none"
    /\ ret' = [f |-> "sanitize_page_id", v |-> sanitize_page_id(arg), n |-> 1]
    /\ UNCHANGED <<fs, clock, nops, last, procs, fs0, allok, arg>>

\* sanitize_page_id applied to its own result
SanitizeAgain ==
    /\ ret.f = "sanitize_page_id" /\ ret.n = 1
    /\ ret' = [f |-> "sanitize_page_id", v |-> sanitize_page_id(ret.v), n |-> 2]
    /\ UNCHANGED <<fs, clock, nops, last, procs, fs0, allok, arg>>

NextSanitize == Sanitize \/ SanitizeAgain

SpecSanitize == InitSanitize /\ [][NextSanitize]_vars

\* C22: sanitize_page_id is idempotent; its result is never empty, has as many
\* characters as a non-empty input, and holds only ASCII alphanumerics, '-'
\* and '_'; the empty input gives "page".
C22_SanitizeIdempotent ==
    [][ ret'.f = "sanitize_page_id"
        => /\ ret'.v # <<>>
           /\ arg # <<>> => Len(ret'.v) = Len(arg)
           /\ arg = <<>> => ret'.v = <<"p", "a", "g", "e">>
           /\ \A i \in 1..Len(ret'.v) :
                ret'.v[i] \in Range(Uppers) \cup Range(Lowers) \cup Range(Digits) \cup {"-", "_"}
           /\ ret.f = "sanitize_page_id" => ret'.v = ret.v ]_vars

\* C22 witness: sanitize_page_id was applied twice to an id of three characters
\* that it alters.
C22_Witness ==
    /\ ret.f = "sanitize_page_id" /\ ret.n = 2
    /\ Len(arg) = 3 /\ ret.v # arg

----------------------------------------------------------------------------
(* validate_html applied to documents (SpecValidate).  A document is a      *)
(* sequence of tokens; the validator is given the characters of the tokens *)
(* one after the other.  Each token is a piece of HTML of a known kind.     *)

\* The characters of each token ("VT" is a vertical tab, "NUL" a zero byte).
TokenChars ==
    "<div>" :> <<"<", "d", "i", "v", ">">>
    @@ "<span>" :> <<"<", "s", "p", "a", "n", ">">>
    @@ "</div>" :> <<"<", "/", "d", "i", "v", ">">>
    @@ "</DIV>" :> <<"<", "/", "D", "I", "V", ">">>
    @@ "</span>" :> <<"<", "/", "s", "p", "a", "n", ">">>
    @@ "<br>" :> <<"<", "b", "r", ">">>
    @@ "<div/>" :> <<"<", "d", "i", "v", "/", ">">>
    @@ "ok" :> <<"o", "k">>
    @@ "<div" :> <<"<", "d", "i", "v">>
    @@ " " :> <<" ">>
    @@ "\n" :> <<"\n">>
    @@ "VT" :> <<"VT">>
    @@ "NUL" :> <<"NUL">>
    @@ "<p>" :> <<"<", "p", ">">>
    @@ "</p>" :> <<"<", "/", "p", ">">>
    @@ "x" :> <<"x">>
    @@ "<script>" :> <<"<", "s", "c", "r", "i", "p", "t", ">">>
    @@ "<style>" :> <<"<", "s", "t", "y", "l", "e", ">">>
    @@ "</SCRIPT>" :> <<"<", "/", "S", "C", "R", "I", "P", "T", ">">>
    @@ "</style>" :> <<"<", "/", "s", "t", "y", "l", "e", ">">>
    @@ "<" :> <<"<">>
    @@ "<script/>" :> <<"<", "s", "c", "r", "i", "p", "t", "/", ">">>
    @@ "<p a=\">\">" :> <<"<", "p", " ", "a", "=", "\"", ">", "\"", ">">>
    @@ "<p a='/>'>" :> <<"<", "p", " ", "a", "=", "'", "/", ">", "'", ">">>
    @@ "<!-- > -->" :> <<"<", "!", "-", "-", " ", ">", " ", "-", "-", ">">>
    @@ "<!--'-->" :> <<"<", "!", "-", "-", "'", "-", "-", ">">>
    @@ "<!d \">\">" :> <<"<", "!", "d", " ", "\"", ">", "\"", ">">>
    @@ "<p a=\">" :> <<"<", "p", " ", "a", "=", "\"", ">">>
    @@ "<!--<p>" :> <<"<", "!", "-", "-", "<", "p", ">">>
    @@ "<!d \">" :> <<"<", "!", "d", " ", "\"", ">">>
    @@ "</p a='>" :> <<"<", "/", "p", " ", "a", "=", "'", ">">>
    @@ "<area>" :> <<"<", "a", "r", "e", "a", ">">>
    @@ "<base>" :> <<"<", "b", "a", "s", "e", ">">>
    @@ "<col>" :> <<"<", "c", "o", "l", ">">>
    @@ "<embed>" :> <<"<", "e", "m", "b", "e", "d", ">">>
    @@ "<hr>" :> <<"<", "h", "r", ">">>
    @@ "<img>" :> <<"<", "i", "m", "g", ">">>
    @@ "<input>" :> <<"<", "i", "n", "p", "u", "t", ">">>
    @@ "<link>" :> <<"<", "l", "i", "n", "k", ">">>
    @@ "<meta>" :> <<"<", "m", "e", "t", "a", ">">>
    @@ "<param>" :> <<"<", "p", "a", "r", "a", "m", ">">>
    @@ "<source>" :> <<"<", "s", "o", "u", "r", "c", "e", ">">>
    @@ "<track>" :> <<"<", "t", "r", "a", "c", "k", ">">>
    @@ "<wbr>" :> <<"<", "w", "b", "r", ">">>
    @@ "<BR>" :> <<"<", "B", "R", ">">>
    @@ "<Img src='a'>" :> <<"<", "I", "m", "g", " ", "s", "r", "c", "=", "'", "a", "'", ">">>
    @@ "<hr />" :> <<"<", "h", "r", " ", "/", ">">>
    @@ "<SPAN />" :> <<"<", "S", "P", "A", "N", " ", "/", ">">>

\* What each token is: an opening or closing tag of a name, a void element, a
\* self-closing tag, text, whitespace, a NUL byte, a comment, a declaration, the
\* opening tag of a raw-text element, a lone '<', or a tag, comment or
\* declaration that lacks its terminator.
TokenKind ==
    "<div>" :> [kind |-> "open", name |-> "div"]
    @@ "<span>" :> [kind |-> "open", name |-> "span"]
    @@ "</div>" :> [kind |-> "close", name |-> "div"]
    @@ "</DIV>" :> [kind |-> "close", name |-> "div"]
    @@ "</span>" :> [kind |-> "close", name |-> "span"]
    @@ "<br>" :> [kind |-> "void", name |-> ""]
    @@ "<div/>" :> [kind |-> "selfclose", name |-> ""]
    @@ "ok" :> [kind |-> "text", name |-> ""]
    @@ "<div" :> [kind |-> "uopen", name |-> ""]
    @@ " " :> [kind |-> "ws", name |-> ""]
    @@ "\n" :> [kind |-> "ws", name |-> ""]
    @@ "VT" :> [kind |-> "ws", name |-> ""]
    @@ "NUL" :> [kind |-> "nul", name |-> ""]
    @@ "<p>" :> [kind |-> "open", name |-> "p"]
    @@ "</p>" :> [kind |-> "close", name |-> "p"]
    @@ "x" :> [kind |-> "text", name |-> ""]
    @@ "<script>" :> [kind |-> "rawopen", name |-> "script"]
    @@ "<style>" :> [kind |-> "rawopen", name |-> "style"]
    @@ "</SCRIPT>" :> [kind |-> "close", name |-> "script"]
    @@ "</style>" :> [kind |-> "close", name |-> "style"]
    @@ "<" :> [kind |-> "stray", name |-> ""]
    @@ "<script/>" :> [kind |-> "selfclose", name |-> ""]
    @@ "<p a=\">\">" :> [kind |-> "open", name |-> "p"]
    @@ "<p a='/>'>" :> [kind |-> "open", name |-> "p"]
    @@ "<!-- > -->" :> [kind |-> "comment", name |-> ""]
    @@ "<!--'-->" :> [kind |-> "comment", name |-> ""]
    @@ "<!d \">\">" :> [kind |-> "decl", name |-> ""]
    @@ "<p a=\">" :> [kind |-> "uopen", name |-> ""]
    @@ "<!--<p>" :> [kind |-> "ucomment", name |-> ""]
    @@ "<!d \">" :> [kind |-> "udecl", name |-> ""]
    @@ "</p a='>" :> [kind |-> "uclose", name |-> ""]
    @@ "<area>" :> [kind |-> "void", name |-> ""]
    @@ "<base>" :> [kind |-> "void", name |-> ""]
    @@ "<col>" :> [kind |-> "void", name |-> ""]
    @@ "<embed>" :> [kind |-> "void", name |-> ""]
    @@ "<hr>" :> [kind |-> "void", name |-> ""]
    @@ "<img>" :> [kind |-> "void", name |-> ""]
    @@ "<input>" :> [kind |-> "void", name |-> ""]
    @@ "<link>" :> [kind |-> "void", name |-> ""]
    @@ "<meta>" :> [kind |-> "void", name |-> ""]
    @@ "<param>" :> [kind |-> "void", name |-> ""]
    @@ "<source>" :> [kind |-> "void", name |-> ""]
    @@ "<track>" :> [kind |-> "void", name |-> ""]
    @@ "<wbr>" :> [kind |-> "void", name |-> ""]
    @@ "<BR>" :> [kind |-> "void", name |-> ""]
    @@ "<Img src='a'>" :> [kind |-> "void", name |-> ""]
    @@ "<hr />" :> [kind |-> "selfclose", name |-> ""]
    @@ "<SPAN />" :> [kind |-> "selfclose", name |-> ""]

NestTokens == { "<div>", "<span>", "</div>", "</DIV>", "</span>", "<br>", "<div/>", "ok", "<div" }
BlankTokens == { " ", "\n", "VT", "NUL", "<p>", "</p>", "x" }
RawTokens == { "<script>", "<style>", "</SCRIPT>", "</style>", "<p>", "</p>", "<", "<script/>" }
QuoteTokens == { "<p a=\">\">", "<p a='/>'>", "</p>", "<!-- > -->", "<!--'-->", "<!d \">\">", "<p a=\">", "<!--<p>", "<!d \">", "</p a='>", "x" }
\* the fourteen void elements, some in other letter cases, and self-closing tags
InsertTokens == { "<area>", "<base>", "<br>", "<col>", "<embed>", "<hr>", "<img>", "<input>", "<link>", "<meta>", "<param>", "<source>", "<track>", "<wbr>", "<BR>", "<Img src='a'>", "<hr />", "<div/>", "<SPAN />", "<script/>" }

MaxDocLen == 4
MaxInsertLen == 2

RECURSIVE Flatten(_)
Flatten(doc) == IF doc = <<>> THEN <<>> ELSE TokenChars[Head(doc)] \o Flatten(Tail(doc))

\* byte offset of the i-th token of a document
OffsetOf(doc, i) == Len(Flatten(SubSeq(doc, 1, i - 1)))

InsertAt(doc, i, t) == SubSeq(doc, 1, i) \o <<t>> \o SubSeq(doc, i + 1, Len(doc))

Docs ==
    SeqsUpTo(NestTokens, MaxDocLen) \cup SeqsUpTo(BlankTokens, MaxDocLen)
    \cup SeqsUpTo(RawTokens, MaxDocLen) \cup SeqsUpTo(QuoteTokens, MaxDocLen)
    \cup { <<t>> : t \in InsertTokens }

InitValidate == /\ StoreUntouched /\ arg \in Docs /\ ret = NoRet

\* validate_html applied to the document
Validate ==
    /\ ret.f = "none"
    /\ ret' = [f |-> "validate_html", v |-> validate_html(Flatten(arg)), n |-> 1]
    /\ UNCHANGED <<fs, clock, nops, last, procs, fs0, allok, arg>>

\* validate_html applied to the document with a void or self-closing tag put
\* before its first token, between two of its tokens, or after its last token
ValidateWithInserted ==
    /\ ret.f = "validate_html" /\ ret.n = 1
    /\ arg # <<>> /\ Len(arg) <= MaxInsertLen
    /\ Range(arg) \subseteq NestTokens \ {"<div"}
    /\ \E i \in 0..Len(arg), t \in InsertTokens :
         /\ arg' = InsertAt(arg, i, t)
         /\ ret' = [f |-> "validate_html", v |-> validate_html(Flatten(arg')), n |-> 2]
    /\ UNCHANGED <<fs, clock, nops, last, procs, fs0, allok>>

NextValidate == Validate \/ ValidateWithInserted

SpecValidate == InitValidate /\ [][NextValidate]_vars

\* The verdict the token structure of a document calls for, by the stack
\* discipline: the error message ("" for acceptance) and its offset.
Verdict(msg, offset) == [err |-> msg, at |-> offset]

Unterminated ==
    [uopen |-> "unterminated opening tag", uclose |-> "unterminated closing tag",
     ucomment |-> "unterminated comment", udecl |-> "unterminated declaration"]

\* A token that lacks its terminator is the last one of the document.
WellPlaced(doc) ==
    \A i \in 1..(Len(doc) - 1) : TokenKind[doc[i]].kind \notin DOMAIN Unterminated

RECURSIVE Expected(_, _, _)
Expected(doc, i, stack) ==
    IF i > Len(doc)
    THEN IF stack = <<>> THEN Verdict("", 0)
         ELSE Verdict("unclosed tag", stack[Len(stack)].at)
    ELSE LET t == TokenKind[doc[i]]
             at == OffsetOf(doc, i)
         IN  CASE t.kind = "open" ->
                    Expected(doc, i + 1, Append(stack, [tag |-> t.name, at |-> at]))
               [] t.kind = "close" ->
                    IF stack = <<>> THEN Verdict("unexpected closing tag", at)
                    ELSE IF stack[Len(stack)].tag # t.name
                    THEN Verdict("mismatched closing tag", at)
                    ELSE Expected(doc, i + 1, SubSeq(stack, 1, Len(stack) - 1))
               [] t.kind = "rawopen" ->
                    LET closes == { j \in (i + 1)..Len(doc) :
                                      /\ TokenKind[doc[j]].kind = "close"
                                      /\ TokenKind[doc[j]].name = t.name }
                    IN  IF closes = {} THEN Verdict("unterminated raw text element", at)
                        ELSE Expected(doc, 1 + CHOOSE j \in closes : \A k \in closes : j <= k,
                                      stack)
               [] t.kind = "stray" -> Verdict("missing tag name", at)
               [] t.kind \in DOMAIN Unterminated -> Verdict(Unterminated[t.kind], at)
               [] OTHER -> Expected(doc, i + 1, stack)

Blank(doc) == \A i \in 1..Len(doc) : TokenKind[doc[i]].kind = "ws"
NulTokens(doc) == { i \in 1..Len(doc) : TokenKind[doc[i]].kind = "nul" }

Validated == ret.f = "validate_html" /\ ret.n = 1
Agrees(v, e) == /\ v.ok <=> e.err = ""
                /\ v.err = e.err
                /\ ~v.ok => v.at = e.at

----------------------------------------------------------------------------
(* Claims about validate_html (SpecValidate)                               *)

\* C24: validate_html accepts an input that is not blank and has no NUL byte
\* exactly when its tags are balanced under the stack discipline (opening tags
\* that are neither void nor self-closing are pushed under their lowercase name,
\* a closing tag must name the top of the stack in any letter case and pops it,
\* the stack is empty at the end); it rejects a closing tag on an empty stack, a
\* mismatched closing tag, an unterminated tag and a tag left open, each with the
\* offset of the offending tag.
C24_BalancedTagsAccepted ==
    (Validated /\ arg # <<>> /\ Range(arg) \subseteq NestTokens /\ WellPlaced(arg))
    => Agrees(ret.v, Expected(arg, 1, <<>>))

\* C24 witness: "<div><span></div></span>" was validated and rejected for its
\* mismatched closing tag.
C24_Witness ==
    /\ Validated
    /\ arg = <<"<div>", "<span>", "</div>", "</span>">>
    /\ ret.v = VErr("mismatched closing tag", 11)

\* C25: validate_html rejects every input that is empty or only whitespace, and
\* every other input that holds a NUL byte, with the offset of the first NUL;
\* both rejections come before any look at the tags, so they are the reported
\* reason also when the tags are malformed.
C25_BlankAndNulRejectedFirst ==
    (Validated /\ Range(arg) \subseteq BlankTokens)
    => /\ Blank(arg) => ret.v = VErr("html is empty or whitespace", 0)
       /\ (~Blank(arg) /\ NulTokens(arg) # {})
          => ret.v = VErr("html contains NUL byte",
                          OffsetOf(arg, CHOOSE i \in NulTokens(arg) :
                                          \A j \in NulTokens(arg) : i <= j))

\* C25 witness: an input with a closing tag that nothing opened, a tag left
\* open and two NUL bytes was rejected for the first NUL, at offset 7.
C25_Witness ==
    /\ Validated
    /\ arg = <<"</p>", "<p>", "NUL", "NUL">>
    /\ ret.v = VErr("html contains NUL byte", 7)

\* C26: the body of a script or style element that is not self-closing is
\* skipped up to the first closing tag of its name in any letter case: a '<' and
\* tags inside the body are not taken as markup and leave the nesting stack as
\* it was, the element itself leaves nothing on the stack, and a script or style
\* element with no closing tag after it is rejected as unterminated, with the
\* offset of its opening tag.
C26_RawTextSkipped ==
    (Validated /\ arg # <<>> /\ Range(arg) \subseteq RawTokens)
    => /\ Agrees(ret.v, Expected(arg, 1, <<>>))
       /\ \A i \in 1..Len(arg) :
            (/\ TokenKind[arg[i]].kind = "rawopen"
             /\ ret.v.err = "unterminated raw text element"
             /\ ret.v.at = OffsetOf(arg, i))
            => \A j \in (i + 1)..Len(arg) :
                  TokenKind[arg[j]] # [kind |-> "close", name |-> TokenKind[arg[i]].name]

\* C26 witness: a script element whose body holds an opening tag and a lone '<'
\* ends at "</SCRIPT>", and the input is accepted.
C26_Witness ==
    /\ Validated
    /\ arg = <<"<script>", "<p>", "<", "</SCRIPT>">>
    /\ ret.v.ok

\* C27: void elements (the fourteen names, in any letter case) and self-closing
\* tags never reach the nesting stack: putting one before, between or after the
\* tokens of a document leaves the verdict of validate_html on it accepted or
\* rejected as it was, and a void element alone is accepted without a closing
\* tag.
C27_VoidTagsLeaveVerdict ==
    [][ /\ (ret.f = "validate_html" /\ ret'.f = "validate_html" /\ ret'.n = 2)
           => (ret'.v.ok <=> ret.v.ok)
        /\ (ret'.f = "validate_html" /\ ret'.n = 1 /\ Len(arg) = 1
            /\ arg[1] \in InsertTokens)
           => ret'.v.ok ]_vars

\* C27 witness: an upper-case void element was put between the two opening
\* tags of "<div><span>", which is rejected before and after.
C27_Witness ==
    /\ ret.f = "validate_html" /\ ret.n = 2
    /\ arg = <<"<div>", "<BR>", "<span>">>
    /\ ~ret.v.ok

\* C28: the scan for the end of a tag honours quotes: a '>' or '/>' inside a
\* single- or double-quoted attribute value does not end the tag (nor make it
\* self-closing), a comment ends only at "-->" whatever quotes or '>' it holds,
\* a declaration ends at the first '>' outside quotes, and an opening tag,
\* closing tag, comment or declaration with no such end is rejected as
\* unterminated with the offset of its '<'.
C28_QuoteAwareTagEnd ==
    (Validated /\ arg # <<>> /\ Range(arg) \subseteq QuoteTokens /\ WellPlaced(arg))
    => /\ Agrees(ret.v, Expected(arg, 1, <<>>))
       /\ TokenKind[arg[Len(arg)]].kind \in DOMAIN Unterminated
          => \/ ret.v = VErr(Unterminated[TokenKind[arg[Len(arg)]].kind],
                             OffsetOf(arg, Len(arg)))
             \/ ret.v.at < OffsetOf(arg, Len(arg))

\* C28 witness: an opening tag whose double-quoted attribute holds '>', a comment
\* that holds a quote, and the closing tag are accepted; the stack held one p.
C28_Witness ==
    /\ Validated
    /\ arg = <<"<p a=\">\">", "<!--'-->", "x", "</p>">>
    /\ ret.v.ok

----------------------------------------------------------------------------
(* web.rs: inject_seo_meta and its scanners.  A string is the sequence of   *)
(* its UTF-8 bytes; a byte above 0x7F is written "0xC3".                    *)

Slice(bytes, from, to) == SubSeq(bytes, from + 1, to)

escape_html_char(ch) ==
    CASE ch = "&" -> <<"&", "a", "m", "p", ";">>
      [] ch = "<" -> <<"&", "l", "t", ";">>
      [] ch = ">" -> <<"&", "g", "t", ";">>
      [] OTHER -> <<ch>>

RECURSIVE escape_html(_)
escape_html(input) ==
    IF input = <<>> THEN <<>>
    ELSE escape_html_char(Head(input)) \o escape_html(Tail(input))

escape_html_attr_char(ch) ==
    CASE ch = "&" -> <<"&", "a", "m", "p", ";">>
      [] ch = "<" -> <<"&", "l", "t", ";">>
      [] ch = ">" -> <<"&", "g", "t", ";">>
      [] ch = "\"" -> <<"&", "q", "u", "o", "t", ";">>
      [] ch = "'" -> <<"&", "#", "3", "9", ";">>
      [] OTHER -> <<ch>>

RECURSIVE escape_html_attr(_)
escape_html_attr(input) ==
    IF input = <<>> THEN <<>>
    ELSE escape_html_attr_char(Head(input)) \o escape_html_attr(Tail(input))

\* items.join(", ")
RECURSIVE JoinKeywords(_)
JoinKeywords(items) ==
    IF items = <<>> THEN <<>>
    ELSE IF Len(items) = 1 THEN items[1]
    ELSE items[1] \o <<",", " ">> \o JoinKeywords(Tail(items))

\* the keywords of the additions: None when absent or blank once joined
KeywordValue(seo) ==
    IF seo.keywords = None THEN None
    ELSE IF Trim(JoinKeywords(seo.keywords[1])) = <<>> THEN None
    ELSE Some(escape_html_attr(JoinKeywords(seo.keywords[1])))

Additions(title, seo) ==
    <<"<", "t", "i", "t", "l", "e", ">">> \o escape_html(title) \o <<"<", "/", "t", "i", "t", "l", "e", ">">>
    \o <<"<", "m", "e", "t", "a", " ", "n", "a", "m", "e", "=", "\"", "d", "e", "s", "c", "r", "i", "p", "t", "i", "o", "n", "\"", " ", "c", "o", "n", "t", "e", "n", "t", "=", "\"">> \o escape_html_attr(seo.description) \o <<"\"", ">">>
    \o (IF KeywordValue(seo) = None THEN <<>>
        ELSE <<"<", "m", "e", "t", "a", " ", "n", "a", "m", "e", "=", "\"", "k", "e", "y", "w", "o", "r", "d", "s", "\"", " ", "c", "o", "n", "t", "e", "n", "t", "=", "\"">> \o KeywordValue(seo)[1] \o <<"\"", ">">>)

\* [ok, name, after]
parse_tag_name_ci(bytes, index) ==
    LET ws    == SkipWhitespace(bytes, index)
        start == IF ws < Len(bytes) /\ At(bytes, ws) = "/" THEN ws + 1 ELSE ws
        stop  == SkipNameChars(bytes, start)
    IN  IF start = stop
        THEN [ok |-> FALSE, name |-> <<>>, after |-> stop]
        ELSE [ok |-> TRUE, name |-> SubSeq(bytes, start + 1, stop), after |-> stop]

find_tag_end_web(bytes, index) == find_tag_end_from(bytes, index, None)

find_bytes_ci(haystack, start, needle) ==
    IF needle = <<>> THEN Min(start, Len(haystack))
    ELSE IF start >= Len(haystack) \/ Len(needle) > Len(haystack) THEN -1
    ELSE LET end == Len(haystack) - Len(needle)
             hits == { i \in start..end : MatchesAtNoCase(haystack, i, needle) }
         IN  IF hits = {} THEN -1 ELSE CHOOSE i \in hits : \A j \in hits : i <= j

\* `byte as char` pushed onto a String: a byte above 0x7F becomes the two UTF-8
\* bytes of the character U+0080..U+00FF of the same number.
ByteAsChar(byte) ==
    CASE byte = "0xC3" -> <<"0xC3", "0x83">>
      [] byte = "0xA9" -> <<"0xC2", "0xA9">>
      [] byte = "0x83" -> <<"0xC2", "0x83">>
      [] byte = "0xC2" -> <<"0xC3", "0x82">>
      [] byte = "0x82" -> <<"0xC2", "0x82">>
      [] OTHER -> <<byte>>

LowerStr(s) == [i \in 1..Len(s) |-> ToAsciiLowercase(s[i])]

\* str::find of a pattern: the offset of its first occurrence, -1 for None
StrFind(s, pattern) == find_bytes(s, 0, pattern)

RECURSIVE TrimStart(_)
TrimStart(s) ==
    IF s # <<>> /\ IsWhitespace(Head(s)) THEN TrimStart(Tail(s)) ELSE s

\* value.split(|ch| ch.is_whitespace() || ch == '>').next()
FirstToken(value) ==
    LET stops == { i \in 1..Len(value) : IsWhitespace(value[i]) \/ value[i] = ">" }
    IN  IF stops = {} THEN value
        ELSE SubSeq(value, 1, (CHOOSE i \in stops : \A j \in stops : i <= j) - 1)

is_meta_named(tag_html, name) ==
    LET lower      == LowerStr(tag_html)
        name_lower == LowerStr(name)
        pos        == StrFind(lower, <<"n", "a", "m", "e">>)
    IN  IF pos = -1 THEN FALSE
        ELSE LET after  == Slice(lower, pos + 4, Len(lower))
                 eq_pos == StrFind(after, <<"=">>)
             IN  IF eq_pos = -1 THEN FALSE
                 ELSE LET value == TrimStart(Slice(after, eq_pos + 1, Len(after))) IN
                      IF value # <<>> /\ Head(value) = "\""
                      THEN LET end == StrFind(Tail(value), <<"\"">>) IN
                           end # -1 /\ Slice(Tail(value), 0, end) = name_lower
                      ELSE IF value # <<>> /\ Head(value) = "'"
                      THEN LET end == StrFind(Tail(value), <<"'">>) IN
                           end # -1 /\ Slice(Tail(value), 0, end) = name_lower
                      ELSE FirstToken(value) = name_lower

\* where the title element that starts at index ends, -1 if it is not removed
TitleEnd(bytes, after_name) ==
    LET tag_end == find_tag_end_web(bytes, after_name) IN
    IF tag_end = -1 THEN -1
    ELSE LET close_start == find_bytes_ci(bytes, tag_end + 1, <<"<", "/", "t", "i", "t", "l", "e">>) IN
         IF close_start = -1 THEN -1
         ELSE find_tag_end_web(bytes, close_start + 2)

\* where the meta tag that starts at index ends, -1 if it is not removed
MetaEnd(bytes, index, after_name) ==
    LET tag_end == find_tag_end_web(bytes, after_name) IN
    IF tag_end = -1 THEN -1
    ELSE IF \/ is_meta_named(Slice(bytes, index, tag_end + 1), <<"d", "e", "s", "c", "r", "i", "p", "t", "i", "o", "n">>)
            \/ is_meta_named(Slice(bytes, index, tag_end + 1), <<"k", "e", "y", "w", "o", "r", "d", "s">>)
    THEN tag_end
    ELSE -1

\* the loop of remove_head_seo_tags: one call is one iteration
RECURSIVE RemoveLoop(_, _, _)
RemoveLoop(bytes, index, result) ==
    IF index >= Len(bytes) THEN result
    ELSE IF At(bytes, index) # "<"
    THEN RemoveLoop(bytes, index + 1, result \o ByteAsChar(At(bytes, index)))
    ELSE LET tn == parse_tag_name_ci(bytes, index + 1)
             lower == LowerStr(tn.name)
             title_end == IF tn.ok /\ lower = <<"t", "i", "t", "l", "e">>
                          THEN TitleEnd(bytes, tn.after) ELSE -1
             meta_end == IF tn.ok /\ lower = <<"m", "e", "t", "a">>
                         THEN MetaEnd(bytes, index, tn.after) ELSE -1
         IN  IF title_end # -1 THEN RemoveLoop(bytes, title_end + 1, result)
             ELSE IF meta_end # -1 THEN RemoveLoop(bytes, meta_end + 1, result)
             ELSE RemoveLoop(bytes, index + 1, result \o ByteAsChar(At(bytes, index)))

remove_head_seo_tags(head_html) == RemoveLoop(head_html, 0, <<>>)

NoRange == <<>>

\* the scan of inject_seo_meta for the head: <<content_start, close_start>> or NoRange
RECURSIVE FindHeadRange(_, _)
FindHeadRange(bytes, index) ==
    IF index >= Len(bytes) THEN NoRange
    ELSE IF At(bytes, index) # "<" THEN FindHeadRange(bytes, index + 1)
    ELSE LET tn == parse_tag_name_ci(bytes, index + 1) IN
         IF ~(tn.ok /\ LowerStr(tn.name) = <<"h", "e", "a", "d">>) THEN FindHeadRange(bytes, index + 1)
         ELSE LET end == find_tag_end_web(bytes, tn.after) IN
              IF end = -1 THEN FindHeadRange(bytes, index + 1)
              ELSE LET close_start == find_bytes_ci(bytes, end + 1, <<"<", "/", "h", "e", "a", "d">>) IN
                   IF close_start = -1 THEN FindHeadRange(bytes, index + 1)
                   ELSE <<end + 1, close_start>>

RECURSIVE FindHtmlTagEndFrom(_, _)
FindHtmlTagEndFrom(bytes, index) ==
    IF index >= Len(bytes) THEN -1
    ELSE IF At(bytes, index) # "<" THEN FindHtmlTagEndFrom(bytes, index + 1)
    ELSE LET tn == parse_tag_name_ci(bytes, index + 1) IN
         IF tn.ok /\ LowerStr(tn.name) = <<"h", "t", "m", "l">>
         THEN LET end == find_tag_end_web(bytes, tn.after) IN
              IF end = -1 THEN -1 ELSE end + 1
         ELSE FindHtmlTagEndFrom(bytes, index + 1)

find_html_tag_end(bytes) == FindHtmlTagEndFrom(bytes, 0)

InHead(additions) == <<"<", "h", "e", "a", "d", ">">> \o additions \o <<"<", "/", "h", "e", "a", "d", ">">>

InjectAt(html, additions, head_range, insert_at, body_pos) ==
    IF head_range # NoRange
    THEN Slice(html, 0, head_range[1]) \o additions
         \o remove_head_seo_tags(Slice(html, head_range[1], head_range[2]))
         \o Slice(html, head_range[2], Len(html))
    ELSE IF insert_at # -1
    THEN Slice(html, 0, insert_at) \o InHead(additions) \o Slice(html, insert_at, Len(html))
    ELSE IF body_pos # -1
    THEN Slice(html, 0, body_pos) \o InHead(additions) \o Slice(html, body_pos, Len(html))
    ELSE InHead(additions) \o html

inject_seo_meta(html, title, seo) ==
    InjectAt(html, Additions(title, seo), FindHeadRange(html, 0),
             find_html_tag_end(html), find_bytes_ci(html, 0, <<"<", "b", "o", "d", "y">>))

----------------------------------------------------------------------------
(* inject_seo_meta applied to pages (SpecInject).  A page is a sequence of  *)
(* pieces of HTML; inject_seo_meta is given their bytes one after the other.*)

PieceBytes ==
    "<html>" :> <<"<", "h", "t", "m", "l", ">">>
    @@ "<head>" :> <<"<", "h", "e", "a", "d", ">">>
    @@ "</head>" :> <<"<", "/", "h", "e", "a", "d", ">">>
    @@ "<body>" :> <<"<", "b", "o", "d", "y", ">">>
    @@ "hi" :> <<"h", "i">>
    @@ "</body>" :> <<"<", "/", "b", "o", "d", "y", ">">>
    @@ "</html>" :> <<"<", "/", "h", "t", "m", "l", ">">>
    @@ "<title>x</title>" :> <<"<", "t", "i", "t", "l", "e", ">", "x", "<", "/", "t", "i", "t", "l", "e", ">">>
    @@ "<TITLE lang='en'>y</TITLE>" :> <<"<", "T", "I", "T", "L", "E", " ", "l", "a", "n", "g", "=", "'", "e", "n", "'", ">", "y", "<", "/", "T", "I", "T", "L", "E", ">">>
    @@ "<meta name=\"description\" content=\"d\">" :> <<"<", "m", "e", "t", "a", " ", "n", "a", "m", "e", "=", "\"", "d", "e", "s", "c", "r", "i", "p", "t", "i", "o", "n", "\"", " ", "c", "o", "n", "t", "e", "n", "t", "=", "\"", "d", "\"", ">">>
    @@ "<META NAME='Keywords' content=k>" :> <<"<", "M", "E", "T", "A", " ", "N", "A", "M", "E", "=", "'", "K", "e", "y", "w", "o", "r", "d", "s", "'", " ", "c", "o", "n", "t", "e", "n", "t", "=", "k", ">">>
    @@ "<meta name=description>" :> <<"<", "m", "e", "t", "a", " ", "n", "a", "m", "e", "=", "d", "e", "s", "c", "r", "i", "p", "t", "i", "o", "n", ">">>
    @@ "<meta data-name=\"x\" name=\"description\">" :> <<"<", "m", "e", "t", "a", " ", "d", "a", "t", "a", "-", "n", "a", "m", "e", "=", "\"", "x", "\"", " ", "n", "a", "m", "e", "=", "\"", "d", "e", "s", "c", "r", "i", "p", "t", "i", "o", "n", "\"", ">">>
    @@ "<meta charset=\"u\">" :> <<"<", "m", "e", "t", "a", " ", "c", "h", "a", "r", "s", "e", "t", "=", "\"", "u", "\"", ">">>
    @@ "é" :> <<"0xC3", "0xA9">>

\* what a head may hold: title elements, description and keywords metas with
\* the name attribute in double quotes, single quotes and unquoted, in lower and
\* upper case, also after another attribute; a meta of another kind; a letter
\* outside ASCII
HeadPieces == { "<title>x</title>", "<TITLE lang='en'>y</TITLE>", "<meta name=\"description\" content=\"d\">", "<META NAME='Keywords' content=k>", "<meta name=description>", "<meta data-name=\"x\" name=\"description\">", "<meta charset=\"u\">", "é" }

MaxHeadLen == 2

RECURSIVE Join(_)
Join(page) == IF page = <<>> THEN <<>> ELSE PieceBytes[Head(page)] \o Join(Tail(page))

Heads == SeqsUpTo(HeadPieces, MaxHeadLen)

\* pages with a head region, with an html tag only, with a body tag only, with
\* none of them, with a head whose end tag is left out, and with an html end
\* tag whose start tag is left out
PagesWithHead == { <<"<html>", "<head>">> \o h \o <<"</head>", "<body>", "hi">> : h \in Heads }
PagesOpenHead ==
    { <<"<head>">> \o h \o <<"<body>", "hi">> : h \in Heads }
    \cup { <<"<html>", "<head>">> \o h \o <<"<body>", "hi">> : h \in Heads }
Pages ==
    PagesWithHead \cup PagesOpenHead
    \cup { <<"<html>", "<body>", "hi">>, <<"<body>", "hi">>, <<"hi">>,
           <<"<body>", "hi", "</body>", "</html>">> }

Titles == { <<"T">>, <<"a", "&", "<">> }
Descriptions == { <<"d">>, <<"\"", "'">> }
KeywordLists == { None, Some(<< <<"k">>, <<"w">> >>), Some(<< <<" ">> >>) }
SeoMetas == [description : Descriptions, keywords : KeywordLists]

InitInject ==
    /\ StoreUntouched
    /\ arg \in [html : Pages, title : Titles, seo : SeoMetas]
    /\ ret = NoRet

Inject ==
    /\ ret.f = "none"
    /\ ret' = [f |-> "inject_seo_meta",
               v |-> inject_seo_meta(Join(arg.html), arg.title, arg.seo), n |-> 1]
    /\ UNCHANGED <<fs, clock, nops, last, procs, fs0, allok, arg>>

\* inject_seo_meta applied to its own result, with the same title and SeoMeta
InjectAgain ==
    /\ ret.f = "inject_seo_meta" /\ ret.n = 1
    /\ ret' = [f |-> "inject_seo_meta",
               v |-> inject_seo_meta(ret.v, arg.title, arg.seo), n |-> 2]
    /\ UNCHANGED <<fs, clock, nops, last, procs, fs0, allok, arg>>

NextInject == Inject \/ InjectAgain

SpecInject == InitInject /\ [][NextInject]_vars

----------------------------------------------------------------------------
(* Claims about inject_seo_meta (SpecInject)                               *)

\* C29: inject_seo_meta is idempotent for a fixed title and SeoMeta: applied to
\* its own result it returns that result, whichever placement applied.
C29_InjectIdempotent ==
    [][ (ret.f = "inject_seo_meta" /\ ret'.f = "inject_seo_meta" /\ ret'.n = 2)
        => ret'.v = ret.v ]_vars

\* how many times a pattern occurs in a string, letter case aside
Occurrences(bytes, pattern) ==
    Cardinality({ i \in 0..(Len(bytes) - Len(pattern)) : MatchesAtNoCase(bytes, i, pattern) })

\* how many tags of a string carry the attribute name with the given value, in
\* double quotes, in single quotes or unquoted
NamedCount(bytes, value) ==
    Occurrences(bytes, <<" ", "n", "a", "m", "e", "=">> \o <<"\"">> \o value \o <<"\"">>)
    + Occurrences(bytes, <<" ", "n", "a", "m", "e", "=">> \o <<"'">> \o value \o <<"'">>)
    + Occurrences(bytes, <<" ", "n", "a", "m", "e", "=">> \o value)

\* the head of a page: what lies between its first "<head>" and the next "</head>"
HeadRegion(bytes) ==
    LET open == find_bytes(bytes, 0, <<"<", "h", "e", "a", "d", ">">>)
    IN  Slice(bytes, open + 6, find_bytes(bytes, open + 6, <<"<", "/", "h", "e", "a", "d", ">">>))

Injected == ret.f = "inject_seo_meta" /\ ret.n = 1

\* C30: after inject_seo_meta on a page with a <head>...</head> region, that head
\* holds exactly one title element, exactly one description meta and, exactly
\* when the joined keywords are not blank, exactly one keywords meta, however
\* many of them the head held before and whatever the letter case or the quoting
\* of their name attribute.
C30_OneTitleOneDescription ==
    (Injected /\ arg.html \in PagesWithHead)
    => /\ Occurrences(HeadRegion(ret.v), <<"<", "t", "i", "t", "l", "e">>) = 1
       /\ NamedCount(HeadRegion(ret.v), <<"d", "e", "s", "c", "r", "i", "p", "t", "i", "o", "n">>) = 1
       /\ NamedCount(HeadRegion(ret.v), <<"k", "e", "y", "w", "o", "r", "d", "s">>)
            = IF KeywordValue(arg.seo) = None THEN 0 ELSE 1

\* the first place of a piece in a page, 0 if it has none
FirstAt(page, piece) ==
    LET at == { i \in 1..Len(page) : page[i] = piece }
    IN  IF at = {} THEN 0 ELSE CHOOSE i \in at : \A j \in at : i <= j

\* the place of the first "</head>" after the first "<head>", 0 if there is none
HeadCloseAt(page) ==
    LET at == { j \in 1..Len(page) : page[j] = "</head>" /\ FirstAt(page, "<head>") \in 1..(j - 1) }
    IN  IF at = {} THEN 0 ELSE CHOOSE j \in at : \A k \in at : j <= k

StartsWith(bytes, prefix) ==
    Len(prefix) <= Len(bytes) /\ SubSeq(bytes, 1, Len(prefix)) = prefix
EndsWith(bytes, suffix) ==
    /\ Len(suffix) <= Len(bytes)
    /\ SubSeq(bytes, Len(bytes) - Len(suffix) + 1, Len(bytes)) = suffix

\* the page with the synthesized head put after its first k pieces
WithHeadAfter(page, k, additions) ==
    Join(SubSeq(page, 1, k)) \o InHead(additions) \o Join(SubSeq(page, k + 1, Len(page)))

\* C31: inject_seo_meta places the new tags by strict priority: inside the head,
\* at the start of its content, when a head start tag is followed by "</head";
\* else in a synthesized head right after the html start tag; else in a
\* synthesized head right before the body tag; else in a synthesized head before
\* the whole document; in the last three cases the rest of the text is the input.
C31_PlacementByPriority ==
    Injected =>
      LET page == arg.html
          additions == Additions(arg.title, arg.seo)
      IN  IF HeadCloseAt(page) # 0
          THEN /\ StartsWith(ret.v, Join(SubSeq(page, 1, FirstAt(page, "<head>"))) \o additions)
               /\ EndsWith(ret.v, Join(SubSeq(page, HeadCloseAt(page), Len(page))))
          ELSE IF FirstAt(page, "<html>") # 0
          THEN ret.v = WithHeadAfter(page, FirstAt(page, "<html>"), additions)
          ELSE IF FirstAt(page, "<body>") # 0
          THEN ret.v = WithHeadAfter(page, FirstAt(page, "<body>") - 1, additions)
          ELSE ret.v = WithHeadAfter(page, 0, additions)

----------------------------------------------------------------------------
(* web.rs: page URLs (SpecSlug)                                            *)

PagesPrefix == <<"/", "p", "a", "g", "e", "s", "/">>

build_page_url(page_id, seo_title) ==
    IF seo_title = <<>>
    THEN PagesPrefix \o page_id
    ELSE PagesPrefix \o seo_title \o <<"+">> \o page_id

\* the first item of a split at the first '+': what lies after it
RSplitFirst_AtFirstPlus(slug) ==
    LET plus == { i \in 1..Len(slug) : slug[i] = "+" }
    IN  IF plus = {} THEN slug
        ELSE SubSeq(slug, (CHOOSE i \in plus : \A j \in plus : i <= j) + 1, Len(slug))

\* slug.rsplitn(2, '+').next(): the scan from the end of the slug to its last '+'
RECURSIVE RSplitFirst(_)
RSplitFirst(slug) ==
    IF slug = <<>> THEN <<>>
    ELSE IF slug[Len(slug)] = "+" THEN <<>>
    ELSE Append(RSplitFirst(SubSeq(slug, 1, Len(slug) - 1)), slug[Len(slug)])

parse_page_id_from_slug(slug) ==
    IF RSplitFirst(slug) = <<>> THEN None ELSE Some(RSplitFirst(slug))

MaxSlugLen == 3
SlugChars == { "a", "b", "+" }
SlugInputs == [page_id : SeqsUpTo(SlugChars, MaxSlugLen), seo_title : SeqsUpTo(SlugChars, MaxSlugLen)]

InitSlug == /\ StoreUntouched /\ arg \in SlugInputs /\ ret = NoRet

BuildPageUrl ==
    /\ ret.f = "none"
    /\ ret' = [f |-> "build_page_url", v |-> build_page_url(arg.page_id, arg.seo_title)]
    /\ UNCHANGED <<fs, clock, nops, last, procs, fs0, allok, arg>>

\* the route /pages/{slug} hands the text after "/pages/" to parse_page_id_from_slug
ParsePageIdFromSlug ==
    /\ ret.f = "build_page_url"
    /\ ret' = [f |-> "parse_page_id_from_slug",
               slug |-> SubSeq(ret.v, Len(PagesPrefix) + 1, Len(ret.v)),
               v |-> parse_page_id_from_slug(SubSeq(ret.v, Len(PagesPrefix) + 1, Len(ret.v)))]
    /\ UNCHANGED <<fs, clock, nops, last, procs, fs0, allok, arg>>

NextSlug == BuildPageUrl \/ ParsePageIdFromSlug

SpecSlug == InitSlug /\ [][NextSlug]_vars

\* what follows the last '+' of a slug, the whole slug when it has none
AfterLastPlus(slug) ==
    LET plus == { i \in 1..Len(slug) : slug[i] = "+" }
    IN  IF plus = {} THEN slug
        ELSE SubSeq(slug, (CHOOSE i \in plus : \A j \in plus : j <= i) + 1, Len(slug))

\* C32: for every id that is not empty and holds no '+', and every title (also
\* one with '+', also the empty one), parse_page_id_from_slug on the slug of
\* build_page_url(id, title) returns Some(id); parse_page_id_from_slug returns
\* None exactly when nothing follows the last '+' of the slug (when the slug is
\* empty, if it has no '+').
C32_SlugRoundTrip ==
    ret.f = "parse_page_id_from_slug"
    => /\ (arg.page_id # <<>> /\ "+" \notin Range(arg.page_id)) => ret.v = Some(arg.page_id)
       /\ ret.v = None <=> AfterLastPlus(ret.slug) = <<>>
       /\ ret.v # None => ret.v = Some(AfterLastPlus(ret.slug))

\* C32 witness: the id "ab" under the title "+" comes back from the slug "++ab".
C32_Witness ==
    /\ ret.f = "parse_page_id_from_slug"
    /\ arg = [page_id |-> <<"a", "b">>, seo_title |-> <<"+">>]
    /\ ret.slug = <<"+", "+", "a", "b">>
    /\ ret.v = Some(<<"a", "b">>)

----------------------------------------------------------------------------
(* Claims about the page_uid a write persists (SpecFaulty)                 *)

\* the first of the uids that is not empty, <<>> when all are
FirstUid(uids) ==
    LET set == { i \in 1..Len(uids) : uids[i] # <<>> }
    IN  IF set = {} THEN <<>> ELSE uids[CHOOSE i \in set : \A j \in set : i <= j]

\* the page_uid of the meta.json of page d on f, <<>> when it has none
MetaUidOn(f, d) == IF MetaOk(f, d) THEN StoredMeta(f, d).page_uid ELSE <<>>
\* the page_uid of the index entry of page d on f, <<>> when it has none
EntryUidOn(f, d) ==
    IF d \in DOMAIN LoadedIndex(f) THEN LoadedIndex(f)[d].page_uid ELSE <<>>

\* C33: a mutating call persists the page_uid chosen by priority: the non-empty
\* page_uid of the meta.json on disk, else that of the index entry, else the
\* non-empty page_uid the caller passes, else a freshly generated one that no
\* index entry carries; meta.json and the index entry get the same value.
C33_PageUidByPriority ==
    [][ (Called({"create_page", "update_page", "update_page_meta", "update_page_html"})
         /\ last'.res = "ok")
        => LET d == TargetNext
               known == FirstUid(<< MetaUidOn(fs, d), EntryUidOn(fs, d),
                                    IF last'.op = "update_page_html" THEN <<>>
                                    ELSE last'.meta.page_uid >>)
           IN  /\ MetaOk(fs', d)
               /\ MetaUidOn(fs', d) = EntryUidOn(fs', d)
               /\ known # <<>> => MetaUidOn(fs', d) = known
               /\ known = <<>> => /\ GeneratedShape(MetaUidOn(fs', d))
                                  /\ MetaUidOn(fs', d) \notin IndexUids(LoadedIndex(fs)) ]_vars

\* C33 witness: update_page with a caller page_uid on page "a", whose meta.json
\* had been lost (the created_at stored is the caller's), kept the page_uid of
\* the index entry.
C33_Witness ==
    /\ last.op = "update_page" /\ last.res = "ok"
    /\ last.meta.page_uid = CallerUid
    /\ MetaOk(fs, <<"a">>)
    /\ StoredMeta(fs, <<"a">>).created_at = 2
    /\ MetaUidOn(fs, <<"a">>) = generate_page_uid(Draw(52))

----------------------------------------------------------------------------
(* Claims about concurrent writers of one page (SpecConc)                  *)

\* thread p has returned success from a call of op on page "a"
DoneOnA(p, op) ==
    /\ procs[p].op = op /\ procs[p].res = "ok" /\ SidOf(p) = <<"a">>

\* C34: with no locking a lost update is reachable: when update_page_meta and
\* update_page_html run concurrently on one page and both return success, the
\* stored seo is the one update_page_meta wrote or, the lost update, the seo of
\* the stale metadata update_page_html had read and wrote back; the html
\* stored is the one update_page_html wrote.
C34_LostUpdate ==
    \A p, q \in Procs :
        (fs0 = FsOnePage /\ DoneOnA(p, "update_page_meta") /\ DoneOnA(q, "update_page_html"))
        => /\ MetaOk(fs, <<"a">>)
           /\ StoredMeta(fs, <<"a">>).seo \in { procs[p].meta.seo, StoredMeta(fs0, <<"a">>).seo }
           /\ StoredMeta(fs, <<"a">>).seo # procs[p].meta.seo
              => StoredMeta(fs, <<"a">>) = procs[q].meta_to_write
           /\ fs.dirs[<<"a">>].html = FileOf(procs[q].html)

\* C34 witness: update_page_meta and update_page_html both returned success on
\* page "a" and the stored seo is the one the page had before: the seo written
\* by update_page_meta is lost.
C34_Witness ==
    \E p, q \in Procs :
        /\ fs0 = FsOnePage
        /\ DoneOnA(p, "update_page_meta") /\ DoneOnA(q, "update_page_html")
        /\ MetaOk(fs, <<"a">>)
        /\ StoredMeta(fs, <<"a">>).seo = StoredMeta(fs0, <<"a">>).seo
        /\ StoredMeta(fs, <<"a">>).seo # procs[p].meta.seo

----------------------------------------------------------------------------
(* Claims about the state the store is left in (Spec)                      *)

\* C35: after any sequence of store operations, successful or failed, each
\* index entry is an exact snapshot of the page it names: its seo and page_uid
\* are those of the page's meta.json, and its page_id is its key and the name
\* of the page's directory.
C35_IndexEntryIsSnapshot ==
    fs.index.st = "ok"
    => \A d \in DOMAIN fs.index.data :
         /\ fs.index.data[d].page_id = d
         /\ MetaOk(fs, d)
         /\ fs.index.data[d].seo = StoredMeta(fs, d).seo
         /\ fs.index.data[d].page_uid = StoredMeta(fs, d).page_uid


\* C36: page_uid identifies at most one page: no two index entries and no two
\* meta.json documents carry the same non-empty page_uid.
C36_PageUidIdentifiesOnePage ==
    /\ fs.index.st = "ok"
       => \A d, e \in DOMAIN fs.index.data :
            (d # e /\ fs.index.data[d].page_uid # <<>>)
            => fs.index.data[d].page_uid # fs.index.data[e].page_uid
    /\ \A d, e \in DirsWithMeta(fs) :
            (d # e /\ StoredMeta(fs, d).page_uid # <<>>)
            => StoredMeta(fs, d).page_uid # StoredMeta(fs, e).page_uid


----------------------------------------------------------------------------
(* Claims about calls racing on one id (SpecConc)                          *)

\* C37: create is exclusive: when two create_page calls for one sanitized id
\* run on a store that has no such page, at most one of them returns success,
\* and once both have returned the stored page is the one that call wrote.
C37_CreateIsExclusive ==
    \A p, q \in Procs :
        (/\ p # q
         /\ procs[p].op = "create_page" /\ procs[q].op = "create_page"
         /\ SidOf(p) = SidOf(q)
         /\ ~IsDir(fs0, SidOf(p))
         /\ Returned_(p) /\ Returned_(q)
         /\ procs[p].res = "ok")
        => /\ procs[q].res # "ok"
           /\ MetaOk(fs, SidOf(p))
           /\ StoredMeta(fs, SidOf(p)) = procs[p].meta_to_write
           /\ fs.dirs[SidOf(p)].html = FileOf(procs[p].html)


\* thread p is running, or has run, an update call on directory d
UpdatingOn(p, d) ==
    /\ procs[p].op \in {"update_page", "update_page_meta", "update_page_html"}
    /\ SidOf(p) = d

\* C38: a deleted page stays deleted: once delete_page has returned success,
\* and no create call for the id was made, the page has no directory and no
\* index entry, whatever update call for the same id ran concurrently.
C38_DeletedStaysDeleted ==
    \A p, q \in Procs :
        (/\ procs[p].op = "delete_page" /\ procs[p].res = "ok"
         /\ UpdatingOn(q, SidOf(p)))
        => /\ ~IsDir(fs, SidOf(p))
           /\ fs.index.st = "ok" => SidOf(p) \notin DOMAIN fs.index.data


----------------------------------------------------------------------------
(* validate_html run one loop iteration at a time (SpecScan): the input is  *)
(* a document of the validator's tokens, ret holds the locals of the call.  *)

MaxScanLen == 2

ScanDocs ==
    SeqsUpTo(NestTokens, MaxScanLen) \cup SeqsUpTo(BlankTokens, MaxScanLen)
    \cup SeqsUpTo(RawTokens, MaxScanLen) \cup SeqsUpTo(QuoteTokens, MaxScanLen)
    \cup { <<t>> : t \in InsertTokens }

InitScan == /\ StoreUntouched /\ arg \in ScanDocs /\ ret = NoRet

\* the locals of validate_html at the head of its loop, or at its return
Locals(index, stack, n, done, v) ==
    [f |-> "scan", index |-> index, stack |-> stack, n |-> n, done |-> done, v |-> v]

\* validate_html is called: the checks before the loop return an error, or the
\* loop is entered with index 0 and an empty stack.
EnterLoop ==
    /\ ret.f = "none"
    /\ LET bytes == Flatten(arg) IN
       ret' = IF Trim(bytes) = <<>> \/ NulPositions(bytes) # {}
              THEN Locals(0, <<>>, 0, TRUE, validate_html(bytes))
              ELSE Locals(0, <<>>, 0, FALSE, VOk)
    /\ UNCHANGED <<fs, clock, nops, last, procs, fs0, allok, arg>>

\* One iteration of the loop; n counts the iterations made.
Iterate ==
    /\ ret.f = "scan" /\ ~ret.done
    /\ ret.index < Len(Flatten(arg))
    /\ ret.n <= Len(Flatten(arg))
    /\ LET r == LoopBody(Flatten(arg), ret.index, ret.stack) IN
       ret' = Locals(r.index, r.stack, ret.n + 1, r.bail, r.v)
    /\ UNCHANGED <<fs, clock, nops, last, procs, fs0, allok, arg>>

\* The loop condition fails and the function returns.
LeaveLoop ==
    /\ ret.f = "scan" /\ ~ret.done
    /\ ret.index >= Len(Flatten(arg))
    /\ ret' = Locals(ret.index, ret.stack, ret.n, TRUE, AfterLoop(ret.stack))
    /\ UNCHANGED <<fs, clock, nops, last, procs, fs0, allok, arg>>

NextScan == EnterLoop \/ Iterate \/ LeaveLoop

\* The call is running code: it takes its next step.
SpecScan == InitScan /\ [][NextScan]_vars /\ WF_vars(NextScan)

\* C39: validate_html terminates on every input: each iteration of its loop
\* moves the cursor strictly forward or returns an error, the iterations made
\* never outnumber the bytes of the input, the cursor never passes the end of
\* the input, and the call returns.
C39_ScanTerminates ==
    /\ [][ (ret.f = "scan" /\ ~ret.done /\ ret.index < Len(Flatten(arg)))
           => /\ ret'.done \/ ret'.index > ret.index
              /\ ret'.index >= ret.index
              /\ ret'.index <= Len(Flatten(arg))
              /\ ret'.n <= Len(Flatten(arg)) ]_vars
    /\ <>(ret.f = "scan" /\ ret.done)

\* C39 witness: a call returned after two or more iterations, fewer than the
\* input has bytes, with the cursor at the end of the input: an iteration
\* jumped over a whole tag, comment or raw-text element.
C39_Witness ==
    /\ ret.f = "scan" /\ ret.done /\ ret.v.ok
    /\ ret.n >= 2 /\ ret.n < Len(Flatten(arg))
    /\ ret.index = Len(Flatten(arg))


\* the pieces of a head that are SEO tags: title elements and description or
\* keywords metas
SeoPieces == HeadPieces \ { "<meta charset=\"u\">", "é" }

RECURSIVE WithoutSeoPieces(_)
WithoutSeoPieces(head) ==
    IF head = <<>> THEN <<>>
    ELSE IF Head(head) \in SeoPieces THEN WithoutSeoPieces(Tail(head))
    ELSE <<Head(head)>> \o WithoutSeoPieces(Tail(head))

\* the pieces of a page between its "<head>" and its "</head>"
HeadOf(page) == SubSeq(page, FirstAt(page, "<head>") + 1, HeadCloseAt(page) - 1)

\* C40: inject_seo_meta changes nothing but SEO tags: on a page with a head
\* region the result is the input up to the end of the head start tag, the new
\* tags, the head content without its title elements and description or
\* keywords metas, every other byte of it as it was, a letter outside ASCII
\* included, and the input from "</head>" on.
C40_OnlySeoTagsChange ==
    (Injected /\ arg.html \in PagesWithHead)
    => LET page == arg.html IN
       ret.v = Join(SubSeq(page, 1, FirstAt(page, "<head>")))
               \o Additions(arg.title, arg.seo)
               \o Join(WithoutSeoPieces(HeadOf(page)))
               \o Join(SubSeq(page, HeadCloseAt(page), Len(page)))

====
